---------------------------- MODULE Spec2Model ----------------------------
(***************************************************************************)
(* A model of the `#[decorate(...)]` attribute macro (src/src/lib.rs):     *)
(* the annotation parser, the self-path resolver, the function validator,  *)
(* the body composer and the signature emitter, followed by the execution  *)
(* of the emitted function with the decorators of the test suite.          *)
(*                                                                         *)
(* Strings whose characters matter (self-path literals) are tuples of      *)
(* one-character strings; Option<T> is a tuple of length 0 (None) or 1     *)
(* (Some).                                                                 *)
(***************************************************************************)
EXTENDS Integers, Sequences, FiniteSets, TLC

VARIABLES
    clock,       \* examples/decorators: the monotonic clock (Instant::now())
    cb_args,     \* circuit_breaker: the arguments written at the decoration
    breakers,    \* circuit_breaker: CIRCUIT_BREAKERS, name -> CircuitBreaker
    cb_calls,    \* circuit_breaker: each caller's position in circuit_breaker
    rl_args,     \* rate_limit: the arguments written at the decoration
    limiters,    \* rate_limit: RATE_LIMITERS, key -> RateLimiterState
    rl_calls,    \* rate_limit: each caller's position in rate_limit_keyed
    executions,  \* rate_limit: the instants at which wrapped functions started
    rt_args,     \* with_retry: the arguments written at the decoration
    rt_call,     \* with_retry: the position and locals of with_retry_result_config
    session,   \* the expansions the compiler has finished before this one
    attr,      \* the annotation's token sequence (macro input `attr`)
    item,      \* the annotated item (macro input `item`)
    callArgs,  \* the values the caller passes for the identifier-bound parameters
    pc,        \* position of `decorate` and of the run of the emitted function
    decorator_list, \* Option: the parsed DecoratorList
    decorated_body, \* Option: the body composed by generate_decorated_body
    output,    \* what `decorate` returned: nothing yet, diagnostics, or a function
    ctl,       \* control of the running emitted function: a node to evaluate or a value returned
    stack,     \* the frames the evaluation will return to
    env,       \* current binding of the identifier-bound parameters
    trace,     \* observable events of the run, in order
    futures,   \* the suspended computations of the run: decorators' and closures'
    result     \* the value the emitted function returned to its caller

exampleVars == <<clock, cb_args, breakers, cb_calls, rl_args, limiters, rl_calls,
                 executions, rt_args, rt_call>>
macroVars == <<session, attr, item, callArgs, pc, decorator_list, decorated_body, output,
               ctl, stack, env, trace, futures, result>>
vars == <<exampleVars, session, attr, item, callArgs, pc, decorator_list, decorated_body, output,
          ctl, stack, env, trace, futures, result>>

None == <<>>
Some(v) == <<v>>
IsSome(o) == Len(o) = 1
Unwrap(o) == o[1]

(***************************************************************************)
(* Diagnostics (mod error_messages).                                       *)
(***************************************************************************)
NO_DECORATORS == "no decorator paths provided"
CONST_FN_NOT_SUPPORTED == "cannot decorate const functions"
\* (the source quotes the keyword with backticks, which a TLA+ string cannot hold)
CONST_FN_HELP == "remove the const keyword or use a regular function"
SELF_PATH_MUST_START_WITH_SELF == "path must start with 'self'"
SELF_PATH_EMPTY_SEGMENT == "path contains empty segment"
SELF_PATH_INVALID_SEGMENT == "path segment must be a valid identifier"
UNKNOWN_CONFIG_OPTION == "unknown configuration option"
UNKNOWN_CONFIG_HELP == "valid options are: pre, post, transform_params, transform_result"
\* a parse error raised by syn itself (unexpected token, unexpected end of input)
SYN_PARSE_ERROR == "syn parse error"

\* Spans: a token of the annotation, the macro call site, the item's `const` token.
AttrSpan(i) == [at |-> "attr", pos |-> i]
CallSiteSpan == [at |-> "call_site", pos |-> 0]
ConstTokenSpan == [at |-> "const_token", pos |-> 0]

\* syn::Error::new(span, message); `arg` is the text formatted into the message
ErrorNew(span, message, arg) == <<[span |-> span, msg |-> message, arg |-> arg]>>

\* an Error combined with a second one carrying "help: {help}"
create_error_with_help(span, message, help) ==
    ErrorNew(span, message, <<>>) \o ErrorNew(span, "help", <<help>>)

(***************************************************************************)
(* Path resolver.                                                          *)
(***************************************************************************)
Letters == {"s", "e", "l", "f", "S", "i", "h", "a", "b", "g", "o", "x", "t", "r"}
Digits == {"1", "2"}
is_alphabetic(c) == c \in Letters
is_alphanumeric(c) == c \in Letters \cup Digits

\* mutant: a digit may begin an identifier
is_valid_identifier_digit_first(s) ==
    IF Len(s) = 0 THEN FALSE
    ELSE \A i \in 1..Len(s) : is_alphanumeric(s[i]) \/ s[i] = "_"

is_valid_identifier(s) ==
    IF Len(s) = 0 THEN FALSE
    ELSE IF ~(is_alphabetic(s[1]) \/ s[1] = "_") THEN FALSE
    ELSE \A i \in 2..Len(s) : is_alphanumeric(s[i]) \/ s[i] = "_"

\* str::split('.'): the maximal dot-free runs, in order; the empty string gives one
\* empty segment
RECURSIVE SplitFrom(_, _, _)
SplitFrom(s, i, cur) ==
    IF i > Len(s) THEN <<cur>>
    ELSE IF s[i] = "." THEN <<cur>> \o SplitFrom(s, i + 1, <<>>)
    ELSE SplitFrom(s, i + 1, Append(cur, s[i]))

split_dot(s) == SplitFrom(s, 1, <<>>)

SelfWord == <<"s", "e", "l", "f">>

\* mutant: the identifier check made before the emptiness check
RECURSIVE SegmentErrorIdentifierFirst(_, _, _)
SegmentErrorIdentifierFirst(segments, i, span) ==
    IF i > Len(segments) THEN None
    ELSE IF i > 1 /\ ~is_valid_identifier(segments[i])
         THEN Some(ErrorNew(span, SELF_PATH_INVALID_SEGMENT, segments[i]))
    ELSE IF Len(segments[i]) = 0
         THEN Some(ErrorNew(span, SELF_PATH_EMPTY_SEGMENT, <<>>))
    ELSE SegmentErrorIdentifierFirst(segments, i + 1, span)

\* the `for (i, segment)` loop of parse_self_path: the first failing segment decides
RECURSIVE SegmentError(_, _, _)
SegmentError(segments, i, span) ==
    IF i > Len(segments) THEN None
    ELSE IF Len(segments[i]) = 0
         THEN Some(ErrorNew(span, SELF_PATH_EMPTY_SEGMENT, <<>>))
    ELSE IF i > 1 /\ ~is_valid_identifier(segments[i])
         THEN Some(ErrorNew(span, SELF_PATH_INVALID_SEGMENT, segments[i]))
    ELSE SegmentError(segments, i + 1, span)

\* mutant: the chain built from the last segment inwards
RECURSIVE FieldChainFromLast(_, _, _)
FieldChainFromLast(expr, segments, i) ==
    IF i > Len(segments) THEN expr
    ELSE FieldChainFromLast([k |-> "field", base |-> expr,
                             member |-> segments[Len(segments) + 2 - i]],
                            segments, i + 1)

\* the `for segment in segments.iter().skip(1)` loop: expr = (expr).segment
RECURSIVE FieldChain(_, _, _)
FieldChain(expr, segments, i) ==
    IF i > Len(segments) THEN expr
    ELSE FieldChain([k |-> "field", base |-> expr, member |-> segments[i]],
                    segments, i + 1)

\* mutant: the receiver of the chain is numbered by the expansions made so far
parse_self_path_numbered(s, span) ==
    LET segments == split_dot(s) IN
    IF Len(segments) = 0 \/ segments[1] # SelfWord
    THEN [ok |-> FALSE, err |-> ErrorNew(span, SELF_PATH_MUST_START_WITH_SELF, <<>>)]
    ELSE LET e == SegmentError(segments, 1, span) IN
         IF IsSome(e) THEN [ok |-> FALSE, err |-> Unwrap(e)]
         ELSE [ok |-> TRUE,
               expr |-> FieldChain([k |-> "self", n |-> Len(session)], segments, 2)]

\* mutant: the first segment only has to begin with `self`
parse_self_path_prefix(s, span) ==
    LET segments == split_dot(s) IN
    IF Len(segments) = 0 \/ Len(segments[1]) < 4 \/ SubSeq(segments[1], 1, 4) # SelfWord
    THEN [ok |-> FALSE, err |-> ErrorNew(span, SELF_PATH_MUST_START_WITH_SELF, <<>>)]
    ELSE LET e == SegmentError(segments, 1, span) IN
         IF IsSome(e) THEN [ok |-> FALSE, err |-> Unwrap(e)]
         ELSE [ok |-> TRUE,
               expr |-> FieldChain([k |-> "self"], segments, 2)]

parse_self_path(s, span) ==
    LET segments == split_dot(s) IN
    IF Len(segments) = 0 \/ segments[1] # SelfWord
    THEN [ok |-> FALSE, err |-> ErrorNew(span, SELF_PATH_MUST_START_WITH_SELF, <<>>)]
    ELSE LET e == SegmentError(segments, 1, span) IN
         IF IsSome(e) THEN [ok |-> FALSE, err |-> Unwrap(e)]
         ELSE [ok |-> TRUE,
               expr |-> FieldChain([k |-> "self"], segments, 2)]

(***************************************************************************)
(* Tokens of the annotation.  A path is one identifier token (its segments *)
(* are not split); an expression that is neither an identifier nor a       *)
(* string literal is one opaque token.                                     *)
(***************************************************************************)
Ident(n) == [t |-> "ident", name |-> n]
EqTok == [t |-> "eq"]
Comma == [t |-> "comma"]
LitStr(chars) == [t |-> "lit", chars |-> chars]
ExprTok(e) == [t |-> "expr", e |-> e]
Paren(toks) == [t |-> "paren", toks |-> toks]
Brace(toks) == [t |-> "brace", toks |-> toks]

Peek(toks, i, kind) == i <= Len(toks) /\ toks[i].t = kind

\* syn's own failure at token i (the end of input when i is past the last token)
SynError(i) == [ok |-> FALSE, err |-> ErrorNew(AttrSpan(i), SYN_PARSE_ERROR, <<>>)]

\* input.parse::<Expr>(): one expression, kept verbatim as its tokens; an identifier
\* directly followed by a parenthesised group is a call expression
ParseExpr(toks, i) ==
    IF Peek(toks, i, "ident") /\ Peek(toks, i + 1, "paren")
    THEN [ok |-> TRUE, val |-> <<toks[i], toks[i + 1]>>, next |-> i + 2]
    ELSE IF i <= Len(toks) /\ toks[i].t \in {"ident", "lit", "expr", "paren", "brace"}
    THEN [ok |-> TRUE, val |-> <<toks[i]>>, next |-> i + 1]
    ELSE SynError(i)

\* input.parse::<Path>()
ParsePath(toks, i) ==
    IF Peek(toks, i, "ident")
    THEN [ok |-> TRUE, val |-> toks[i].name, next |-> i + 1]
    ELSE SynError(i)

\* Punctuated::<Expr, Token![,]>::parse_terminated: values and the commas after them
RECURSIVE ParseTerminatedExprs(_, _, _)
ParseTerminatedExprs(toks, i, acc) ==
    IF i > Len(toks) THEN [ok |-> TRUE, val |-> [items |-> acc, trailing |-> Len(acc) > 0]]
    ELSE LET v == ParseExpr(toks, i) IN
         IF ~v.ok THEN v
         ELSE IF v.next > Len(toks)
         THEN [ok |-> TRUE, val |-> [items |-> Append(acc, v.val), trailing |-> FALSE]]
         ELSE IF toks[v.next].t # "comma" THEN SynError(v.next)
         ELSE ParseTerminatedExprs(toks, v.next + 1, Append(acc, v.val))

(***************************************************************************)
(* DecoratorConfig and DecoratorCall.                                      *)
(***************************************************************************)
DecoratorConfigDefault ==
    [pre_code |-> None, post_code |-> None,
     transform_params |-> None, transform_result |-> None]

has_any(config) ==
    \/ IsSome(config.pre_code)
    \/ IsSome(config.post_code)
    \/ IsSome(config.transform_params)
    \/ IsSome(config.transform_result)

\* mutant: a key that is none of the four is read over together with its value
RECURSIVE ParseConfigPairsLenient(_, _, _)
ParseConfigPairsLenient(toks, i, config) ==
    IF ~(Peek(toks, i, "ident") /\ Peek(toks, i + 1, "eq"))
    THEN [ok |-> TRUE, val |-> config, next |-> i]
    ELSE
      LET key == toks[i].name
          v == IF key \in {"transform_params", "transform_result"}
               THEN ParsePath(toks, i + 2) ELSE ParseExpr(toks, i + 2)
          set == CASE key = "pre" -> [config EXCEPT !.pre_code = Some(v.val)]
                   [] key = "post" -> [config EXCEPT !.post_code = Some(v.val)]
                   [] key = "transform_params" ->
                          [config EXCEPT !.transform_params = Some(v.val)]
                   [] key = "transform_result" ->
                          [config EXCEPT !.transform_result = Some(v.val)]
                   [] OTHER -> config
          afterComma == IF Peek(toks, v.next, "comma") THEN v.next + 1 ELSE v.next
      IN IF ~v.ok THEN v
         ELSE ParseConfigPairsLenient(toks, afterComma, set)

\* mutant: a field that is already set keeps its value
RECURSIVE ParseConfigPairsFirstWins(_, _, _)
ParseConfigPairsFirstWins(toks, i, config) ==
    IF ~(Peek(toks, i, "ident") /\ Peek(toks, i + 1, "eq"))
    THEN [ok |-> TRUE, val |-> config, next |-> i]
    ELSE
      LET key == toks[i].name
          isExprKey == key \in {"pre", "post"}
          isPathKey == key \in {"transform_params", "transform_result"}
          v == IF isExprKey THEN ParseExpr(toks, i + 2) ELSE ParsePath(toks, i + 2)
          set == CASE key = "pre" /\ config.pre_code = None ->
                          [config EXCEPT !.pre_code = Some(v.val)]
                   [] key = "post" /\ config.post_code = None ->
                          [config EXCEPT !.post_code = Some(v.val)]
                   [] key = "transform_params" /\ config.transform_params = None ->
                          [config EXCEPT !.transform_params = Some(v.val)]
                   [] key = "transform_result" /\ config.transform_result = None ->
                          [config EXCEPT !.transform_result = Some(v.val)]
                   [] OTHER -> config
          afterComma == IF Peek(toks, v.next, "comma") THEN v.next + 1 ELSE v.next
      IN IF ~(isExprKey \/ isPathKey)
         THEN [ok |-> FALSE,
               err |-> create_error_with_help(AttrSpan(i), UNKNOWN_CONFIG_OPTION,
                                              UNKNOWN_CONFIG_HELP)]
         ELSE IF ~v.ok THEN v
         ELSE ParseConfigPairsFirstWins(toks, afterComma, set)

\* the `while input.peek(Ident) && input.peek2(Token![=])` loop of DecoratorCall::parse
RECURSIVE ParseConfigPairs(_, _, _)
ParseConfigPairs(toks, i, config) ==
    IF ~(Peek(toks, i, "ident") /\ Peek(toks, i + 1, "eq"))
    THEN [ok |-> TRUE, val |-> config, next |-> i]
    ELSE
      LET key == toks[i].name
          isExprKey == key \in {"pre", "post"}
          isPathKey == key \in {"transform_params", "transform_result"}
          v == IF isExprKey THEN ParseExpr(toks, i + 2) ELSE ParsePath(toks, i + 2)
          set == CASE key = "pre" -> [config EXCEPT !.pre_code = Some(v.val)]
                   [] key = "post" -> [config EXCEPT !.post_code = Some(v.val)]
                   [] key = "transform_params" ->
                          [config EXCEPT !.transform_params = Some(v.val)]
                   [] key = "transform_result" ->
                          [config EXCEPT !.transform_result = Some(v.val)]
          afterComma == IF Peek(toks, v.next, "comma") THEN v.next + 1 ELSE v.next
      IN IF ~(isExprKey \/ isPathKey)
         THEN [ok |-> FALSE,
               err |-> create_error_with_help(AttrSpan(i), UNKNOWN_CONFIG_OPTION,
                                              UNKNOWN_CONFIG_HELP)]
         ELSE IF ~v.ok THEN v
         ELSE ParseConfigPairs(toks, afterComma, set)

\* the decorator reference: a string literal resolved as a self-path, or a path
SelfPathReference(r, j) ==
    IF r.ok THEN [ok |-> TRUE, val |-> [e |-> "Right", expr |-> r.expr], next |-> j + 1]
    ELSE [ok |-> FALSE, err |-> r.err]

PathReference(q) ==
    IF q.ok THEN [ok |-> TRUE, val |-> [e |-> "Left", path |-> q.val], next |-> q.next]
    ELSE q

\* mutant: at the end of the input the reference is taken to be an empty path
ParseReferenceOrNothing(toks, j) ==
    IF j > Len(toks) THEN [ok |-> TRUE, val |-> [e |-> "Left", path |-> ""], next |-> j]
    ELSE IF Peek(toks, j, "lit")
    THEN SelfPathReference(parse_self_path(toks[j].chars, AttrSpan(j)), j)
    ELSE PathReference(ParsePath(toks, j))

ParseReference(toks, j) ==
    IF Peek(toks, j, "lit")
    THEN SelfPathReference(parse_self_path(toks[j].chars, AttrSpan(j)), j)
    ELSE PathReference(ParsePath(toks, j))

\* the optional parenthesised arguments; an error inside the group is anchored at
\* the group
ParsedArguments(a, k) ==
    IF a.ok THEN [ok |-> TRUE, val |-> Some(a.val), next |-> k + 1] ELSE SynError(k)

ParseArguments(toks, k) ==
    IF Peek(toks, k, "paren")
    THEN ParsedArguments(ParseTerminatedExprs(toks[k].toks, 1, <<>>), k)
    ELSE [ok |-> TRUE, val |-> None, next |-> k]

\* mutant: the config record is kept even when none of its fields is set
BuildDecoratorCallKeepingConfig(c, p, a) ==
    IF ~a.ok THEN a
    ELSE [ok |-> TRUE,
          val |-> [config |-> Some(c.val),
                   path |-> p.val,
                   path_span |-> AttrSpan(c.next),
                   args |-> a.val],
          next |-> a.next]

\* `Ok(DecoratorCall { config: if config.has_any() { Some(config) } else { None }, .. })`
BuildDecoratorCall(c, p, a) ==
    IF ~a.ok THEN a
    ELSE [ok |-> TRUE,
          val |-> [config |-> IF has_any(c.val) THEN Some(c.val) ELSE None,
                   path |-> p.val,
                   path_span |-> AttrSpan(c.next),
                   args |-> a.val],
          next |-> a.next]

AfterReference(toks, c, p) ==
    IF ~p.ok THEN p ELSE BuildDecoratorCall(c, p, ParseArguments(toks, p.next))

AfterConfig(toks, c) ==
    IF ~c.ok THEN c ELSE AfterReference(toks, c, ParseReference(toks, c.next))

\* DecoratorCall::parse from token i
ParseDecoratorCall(toks, i) ==
    AfterConfig(toks, ParseConfigPairs(toks, i, DecoratorConfigDefault))

\* DecoratorList::parse: Punctuated::<DecoratorCall, Token![,]>::parse_terminated
RECURSIVE ParseTerminatedCalls(_, _, _)
ParseTerminatedCalls(toks, i, acc) ==
    IF i > Len(toks) THEN [ok |-> TRUE, val |-> [items |-> acc, trailing |-> Len(acc) > 0]]
    ELSE LET v == ParseDecoratorCall(toks, i) IN
         IF ~v.ok THEN v
         ELSE IF v.next > Len(toks)
         THEN [ok |-> TRUE, val |-> [items |-> Append(acc, v.val), trailing |-> FALSE]]
         ELSE IF toks[v.next].t # "comma" THEN SynError(v.next)
         ELSE ParseTerminatedCalls(toks, v.next + 1, Append(acc, v.val))

ParseDecoratorList(toks) ==
    LET r == ParseTerminatedCalls(toks, 1, <<>>) IN
    IF r.ok THEN [ok |-> TRUE, val |-> [decorators |-> r.val]] ELSE r

(***************************************************************************)
(* The annotated function.  An FnArg is a receiver or a typed pattern; a   *)
(* typed pattern is Pat::Ident (a plain name) or any other pattern.        *)
(***************************************************************************)
Receiver == [arg |-> "Receiver", pat |-> "", ident |-> ""]
ReceiverMut == [arg |-> "Receiver", pat |-> "mut", ident |-> ""]
TypedIdent(n) == [arg |-> "Typed", pat |-> "Ident", ident |-> n]
TypedPattern == [arg |-> "Typed", pat |-> "Tuple", ident |-> ""]

\* mutant: every typed parameter is taken, whatever its pattern
RECURSIVE extract_param_names_any_pattern(_)
extract_param_names_any_pattern(inputs) ==
    IF Len(inputs) = 0 THEN <<>>
    ELSE LET a == Head(inputs) IN
         (IF a.arg = "Typed" THEN <<a.ident>> ELSE <<>>)
             \o extract_param_names_any_pattern(Tail(inputs))

RECURSIVE extract_param_names(_)
extract_param_names(inputs) ==
    IF Len(inputs) = 0 THEN <<>>
    ELSE LET a == Head(inputs) IN
         (IF a.arg = "Typed" /\ a.pat = "Ident" THEN <<a.ident>> ELSE <<>>)
             \o extract_param_names(Tail(inputs))

(***************************************************************************)
(* Body composer.  The emitted body is a tree of the blocks the quote!     *)
(* templates build; the argument list of a decorator call is kept as its   *)
(* token sequence.                                                         *)
(***************************************************************************)
\* the closure argument of the emitted call (`|| #body`, `|| async { #body }`, or
\* the local `__decorate_closure` bound to it)
ClosureTok == [t |-> "closure"]

\* ToTokens of a Punctuated: each value followed by its comma, if it has one
RECURSIVE PunctuatedTokens(_, _)
PunctuatedTokens(p, i) ==
    IF i > Len(p.items) THEN <<>>
    ELSE p.items[i]
         \o (IF i < Len(p.items) \/ p.trailing THEN <<Comma>> ELSE <<>>)
         \o PunctuatedTokens(p, i + 1)

\* mutant: the argument list is spliced in front of the closure even when absent
CallTokensArgsAlways(args) ==
    (IF IsSome(args) THEN PunctuatedTokens(Unwrap(args), 1) ELSE <<>>)
    \o <<Comma, ClosureTok>>

\* `(#args, closure)` when args is Some, `(closure)` when it is None
CallTokens(args) ==
    IF IsSome(args) THEN PunctuatedTokens(Unwrap(args), 1) \o <<Comma, ClosureTok>>
    ELSE <<ClosureTok>>

generate_direct_decorator_call(decorator_expr, args, body, is_async, span) ==
    [k |-> "direct_call", callee |-> decorator_expr, call_tokens |-> CallTokens(args),
     is_async |-> is_async, body |-> body, span |-> span]

\* mutant: the closure of the synchronous shape, `|| body`, whatever the function
generate_validated_decorator_call_sync(decorator_expr, args, body, is_async, is_self_path, span) ==
    IF is_self_path
    THEN generate_direct_decorator_call(decorator_expr, args, body, FALSE, span)
    ELSE [k |-> "validated_call", callee |-> decorator_expr,
          call_tokens |-> CallTokens(args),
          is_async |-> FALSE, body |-> body, span |-> span]

generate_validated_decorator_call(decorator_expr, args, body, is_async, is_self_path, span) ==
    IF is_self_path
    THEN generate_direct_decorator_call(decorator_expr, args, body, is_async, span)
    ELSE [k |-> "validated_call", callee |-> decorator_expr,
          call_tokens |-> CallTokens(args),
          is_async |-> is_async, body |-> body, span |-> span]

\* mutant: the four wrappers applied in the opposite order
apply_config_transformations_reversed(config, body, fn_inputs) ==
    LET param_names == extract_param_names(fn_inputs)
        b1 == IF IsSome(config.transform_result)
              THEN [k |-> "transform_result", f |-> Unwrap(config.transform_result),
                    body |-> body]
              ELSE body
        b2 == IF IsSome(config.post_code)
              THEN [k |-> "post", e |-> Unwrap(config.post_code), body |-> b1]
              ELSE b1
        b3 == IF IsSome(config.pre_code)
              THEN [k |-> "pre", e |-> Unwrap(config.pre_code), body |-> b2]
              ELSE b2
        b4 == IF IsSome(config.transform_params) /\ Len(param_names) > 0
              THEN [k |-> "let_params", names |-> param_names,
                    f |-> Unwrap(config.transform_params), body |-> b3]
              ELSE b3
    IN b4

apply_config_transformations(config, body, fn_inputs) ==
    LET param_names == extract_param_names(fn_inputs)
        b1 == IF IsSome(config.transform_params) /\ Len(param_names) > 0
              THEN [k |-> "let_params", names |-> param_names,
                    f |-> Unwrap(config.transform_params), body |-> body]
              ELSE body
        b2 == IF IsSome(config.pre_code)
              THEN [k |-> "pre", e |-> Unwrap(config.pre_code), body |-> b1]
              ELSE b1
        b3 == IF IsSome(config.post_code)
              THEN [k |-> "post", e |-> Unwrap(config.post_code), body |-> b2]
              ELSE b2
        b4 == IF IsSome(config.transform_result)
              THEN [k |-> "transform_result", f |-> Unwrap(config.transform_result),
                    body |-> b3]
              ELSE b3
    IN b4

\* mutant: the hooks put around the decorator call, the transforms inside its closure
WrapOneHooksOutside(decorator, current, fn_inputs, is_async) ==
    LET config == IF IsSome(decorator.config) THEN Unwrap(decorator.config)
                  ELSE DecoratorConfigDefault
        inside == apply_config_transformations(
                      [config EXCEPT !.pre_code = None, !.post_code = None],
                      current, fn_inputs)
        call == generate_validated_decorator_call(decorator.path, decorator.args, inside,
                                                  is_async, decorator.path.e = "Right",
                                                  decorator.path_span)
    IN apply_config_transformations(
           [config EXCEPT !.transform_params = None, !.transform_result = None],
           call, fn_inputs)

\* one turn of `for decorator in decorators.iter().rev()`
WrapOne(decorator, current, fn_inputs, is_async) ==
    LET configured == IF IsSome(decorator.config)
                      THEN apply_config_transformations(Unwrap(decorator.config),
                                                        current, fn_inputs)
                      ELSE current
    IN generate_validated_decorator_call(decorator.path, decorator.args, configured,
                                         is_async, decorator.path.e = "Right",
                                         decorator.path_span)

\* mutant: the loop without `.rev()`, wrapping the first decorator innermost
RECURSIVE WrapFromForward(_, _, _, _, _)
WrapFromForward(decorators, i, current, fn_inputs, is_async) ==
    IF i < 1 THEN current
    ELSE WrapFromForward(decorators, i - 1,
                         WrapOne(decorators[Len(decorators) - i + 1], current,
                                 fn_inputs, is_async),
                         fn_inputs, is_async)

\* the loop, from the last decorator (i = Len) down to the first
RECURSIVE WrapFrom(_, _, _, _, _)
WrapFrom(decorators, i, current, fn_inputs, is_async) ==
    IF i < 1 THEN current
    ELSE WrapFrom(decorators, i - 1,
                  WrapOne(decorators[i], current, fn_inputs, is_async),
                  fn_inputs, is_async)

generate_decorated_body(decorators, original_body, fn_inputs, is_async) ==
    WrapFrom(decorators.items, Len(decorators.items),
             [k |-> "orig", block |-> original_body], fn_inputs, is_async)

(***************************************************************************)
(* The macro `decorate`, in the order of its statements.                   *)
(***************************************************************************)
\* mutant: the annotated item is passed through next to the diagnostics
RejectedKeepingItem(diags) == [kind |-> "error", diags |-> diags, fn |-> item]

\* `e.to_compile_error().into()`: the whole output of a failed expansion
Rejected(diags) == [kind |-> "error", diags |-> diags]
NoOutput == [kind |-> "none"]

\* mutant: the empty list is not looked for
MatchDecoratorListAnyLength(l) == l

\* `match syn::parse::<DecoratorList>(attr)`: an empty list and a parse error both
\* end the macro
MatchDecoratorList(l) ==
    IF l.ok /\ Len(l.val.decorators.items) = 0
    THEN [ok |-> FALSE, err |-> ErrorNew(CallSiteSpan, NO_DECORATORS, <<>>)]
    ELSE l

ParseAttr ==
    /\ pc = "start"
    /\ LET l == MatchDecoratorList(ParseDecoratorList(attr)) IN
       IF ~l.ok
       THEN /\ output' = Rejected(l.err)
            /\ pc' = "rejected"
            /\ UNCHANGED decorator_list
       ELSE /\ decorator_list' = Some(l.val)
            /\ pc' = "attr_parsed"
            /\ UNCHANGED output
    /\ UNCHANGED <<exampleVars, session, attr, item, callArgs, decorated_body, ctl, stack, env, trace, result,
                   futures>>

\* mutant: the `const` keyword is looked for before the item is parsed
ParseItemConstFirst ==
    /\ pc = "attr_parsed"
    /\ IF item.sig.constness
       THEN /\ output' = Rejected(create_error_with_help(ConstTokenSpan,
                                       CONST_FN_NOT_SUPPORTED, CONST_FN_HELP))
            /\ pc' = "rejected"
       ELSE IF ~item.is_fn
       THEN /\ output' = Rejected(ErrorNew([at |-> "item", pos |-> 0], SYN_PARSE_ERROR, <<>>))
            /\ pc' = "rejected"
       ELSE /\ pc' = "item_parsed"
            /\ UNCHANGED output
    /\ UNCHANGED <<exampleVars, session, attr, item, callArgs, decorator_list, decorated_body,
                   ctl, stack, env, trace, futures, result>>

\* syn::parse::<ItemFn>(item)
ParseItem ==
    /\ pc = "attr_parsed"
    /\ IF ~item.is_fn
       THEN /\ output' = Rejected(ErrorNew([at |-> "item", pos |-> 0], SYN_PARSE_ERROR, <<>>))
            /\ pc' = "rejected"
       ELSE /\ pc' = "item_parsed"
            /\ UNCHANGED output
    /\ UNCHANGED <<exampleVars, session, attr, item, callArgs, decorator_list, decorated_body,
                   ctl, stack, env, trace, result,
                   futures>>

\* mutant: the validator turns async functions away as well
ConstnessErrorOrAsync(sig) ==
    IF sig.constness \/ sig.asyncness
    THEN Some(create_error_with_help(ConstTokenSpan, CONST_FN_NOT_SUPPORTED,
                                     CONST_FN_HELP))
    ELSE None

\* mutant: the validator turns generic functions away as well
ConstnessErrorOrGeneric(sig) ==
    IF sig.constness \/ Len(sig.generics.params) > 0
    THEN Some(create_error_with_help(ConstTokenSpan, CONST_FN_NOT_SUPPORTED,
                                     CONST_FN_HELP))
    ELSE None

\* mutant: the validator lets every function through
ConstnessErrorNever(sig) == None

\* the function validator: `if let Some(const_token) = &input_fn.sig.constness`
ConstnessError(sig) ==
    IF sig.constness
    THEN Some(create_error_with_help(ConstTokenSpan, CONST_FN_NOT_SUPPORTED,
                                     CONST_FN_HELP))
    ELSE None

CheckConst ==
    /\ pc = "item_parsed"
    /\ IF IsSome(ConstnessError(item.sig))
       THEN /\ output' = Rejected(Unwrap(ConstnessError(item.sig)))
            /\ pc' = "rejected"
       ELSE /\ pc' = "validated"
            /\ UNCHANGED output
    /\ UNCHANGED <<exampleVars, session, attr, item, callArgs, decorator_list, decorated_body,
                   ctl, stack, env, trace, result,
                   futures>>

Compose ==
    /\ pc = "validated"
    /\ decorated_body' = Some(generate_decorated_body(Unwrap(decorator_list).decorators,
                                  item.block, item.sig.inputs, item.sig.asyncness))
    /\ pc' = "composed"
    /\ UNCHANGED <<exampleVars, session, attr, item, callArgs, decorator_list, output,
                   ctl, stack, env, trace, result,
                   futures>>

\* mutant: the emitter without `#vis`
EmitInherited ==
    /\ pc = "composed"
    /\ output' = [kind |-> "fn", attrs |-> item.attrs, vis |-> "inherited",
                  sig |-> item.sig, body |-> Unwrap(decorated_body),
                  await |-> item.sig.asyncness]
    /\ pc' = "expanded"
    /\ UNCHANGED <<exampleVars, session, attr, item, callArgs, decorator_list, decorated_body,
                   ctl, stack, env, trace, result,
                   futures>>

\* the signature emitter: `#(#attrs)* #vis #sig { #decorated_body }`, with `.await`
\* after the body when the function is async
Emit ==
    /\ pc = "composed"
    /\ output' = [kind |-> "fn", attrs |-> item.attrs, vis |-> item.vis,
                  sig |-> item.sig, body |-> Unwrap(decorated_body),
                  await |-> item.sig.asyncness]
    /\ pc' = "expanded"
    /\ UNCHANGED <<exampleVars, session, attr, item, callArgs, decorator_list, decorated_body,
                   ctl, stack, env, trace, result,
                   futures>>

(***************************************************************************)
(* The host compiler's reading of the emitted function.                    *)
(***************************************************************************)
\* the argument positions of a call: the comma-free runs of its tokens
RECURSIVE ArgRuns(_, _, _)
ArgRuns(toks, i, cur) ==
    IF i > Len(toks) THEN <<cur>>
    ELSE IF toks[i].t = "comma" THEN <<cur>> \o ArgRuns(toks, i + 1, <<>>)
    ELSE ArgRuns(toks, i + 1, Append(cur, toks[i]))

\* a call's argument list parses when no position is empty, but for the one after a
\* single trailing comma
CallParses(toks) ==
    LET runs == ArgRuns(toks, 1, <<>>) IN
    \A i \in 1..Len(runs) : Len(runs[i]) > 0 \/ (i = Len(runs) /\ Len(runs) > 1)

RECURSIVE BodyParses(_)
BodyParses(node) ==
    CASE node.k = "orig" -> TRUE
      [] node.k \in {"validated_call", "direct_call"} ->
             CallParses(node.call_tokens) /\ BodyParses(node.body)
      [] OTHER -> BodyParses(node.body)

RECURSIVE UsesReceiver(_)
UsesReceiver(node) ==
    CASE node.k = "orig" -> FALSE
      [] node.k = "direct_call" -> TRUE
      [] OTHER -> UsesReceiver(node.body)

HasReceiver(inputs) == \E i \in 1..Len(inputs) : inputs[i].arg = "Receiver"

\* the emitted function compiles: its calls parse and `self` names a receiver
\* the suspension layers around the value of an expression: a decorator of the
\* async call shape handed `|| async { body }` returns a future of the body's value
RECURSIVE Layers(_)
Layers(node) ==
    CASE node.k = "orig" -> 0
      [] node.k \in {"validated_call", "direct_call"} ->
             (IF node.is_async THEN 1 ELSE 0) + Layers(node.body)
      [] OTHER -> Layers(node.body)

\* the function's last expression has the declared return type: `.await` takes one
\* layer off
ReturnTypeMatches(fn) == Layers(fn.body) = (IF fn.await THEN 1 ELSE 0)

HostAccepts(fn) ==
    /\ BodyParses(fn.body)
    /\ UsesReceiver(fn.body) => HasReceiver(fn.sig.inputs)
    /\ ReturnTypeMatches(fn)

(***************************************************************************)
(* Running the emitted function.  Every decorator is a logging             *)
(* pass-through (log_start, log_middle, log_end of                         *)
(* tests/pass/multiple_decorators.rs): it records its entry, calls the     *)
(* closure once, records its exit and returns the closure's value.  The    *)
(* transforms are those of tests/pass/transform_params.rs, applied to      *)
(* every parameter.  The original body adds its parameters up; a block of  *)
(* kind "return" leaves through an explicit `return`.                      *)
(***************************************************************************)
IntV(n) == [v |-> "int", n |-> n]
Event(ev, who, val) == [ev |-> ev, who |-> who, val |-> val]

RECURSIVE Sum(_)
Sum(vals) == IF Len(vals) = 0 THEN 0 ELSE Head(vals) + Sum(Tail(vals))

ApplyParamTransform(f, vals) ==
    CASE f = "transform_params" -> [i \in 1..Len(vals) |-> vals[i] + 1]
      [] f = "double_params" -> [i \in 1..Len(vals) |-> vals[i] * 2]

ApplyResultTransform(f, r) ==
    CASE f = "transform_result" -> r * 2
      [] f = "add_one_result" -> r + 1

Push(frame) == <<frame>> \o stack
Top == Head(stack)

\* the caller calls the emitted function
Invoke ==
    /\ pc = "expanded"
    /\ HostAccepts(output)
    /\ pc' = "running"
    /\ env' = callArgs
    /\ ctl' = [m |-> "eval", node |-> output.body]
    /\ stack' = IF output.await THEN <<[f |-> "await"]>> ELSE <<>>
    /\ UNCHANGED <<exampleVars, session, attr, item, callArgs, decorator_list, decorated_body, output,
                   trace, result,
                   futures>>

\* the emitted function does not compile
HostReject ==
    /\ pc = "expanded"
    /\ ~HostAccepts(output)
    /\ pc' = "compile_error"
    /\ UNCHANGED <<exampleVars, session, attr, item, callArgs, decorator_list, decorated_body, output,
                   ctl, stack, env, trace, result,
                   futures>>

Evaluating(kinds) == pc = "running" /\ ctl.m = "eval" /\ ctl.node.k \in kinds
Returning(frame) == pc = "running" /\ ctl.m = "ret" /\ Len(stack) > 0 /\ Top.f = frame

\* `decorator(args.., || body)`: the decorator is entered and calls its closure
EvalDecoratorCall ==
    /\ Evaluating({"validated_call", "direct_call"})
    /\ ~ctl.node.is_async
    /\ trace' = Append(trace, Event("enter", ctl.node.callee, IntV(0)))
    /\ stack' = <<[f |-> "closure"], [f |-> "decorator", callee |-> ctl.node.callee]>>
                    \o stack
    /\ ctl' = [m |-> "eval", node |-> ctl.node.body]
    /\ UNCHANGED <<exampleVars, session, attr, item, callArgs, pc, decorator_list, decorated_body, output,
                   env, result,
                   futures>>

\* `decorator(args.., || async { body })`: the decorator is entered and returns a
\* future at once; nothing of the closure has run
FutureV(node) == [v |-> "future", node |-> node]

Future(who, callee, state) == [who |-> who, callee |-> callee, state |-> state]

\* a decorator may call its closure before it returns (`let fut = f();`) or only
\* inside the future it returns (log_call: `async move { f().await }`)
EvalAsyncDecoratorCall ==
    /\ Evaluating({"validated_call", "direct_call"})
    /\ ctl.node.is_async
    /\ trace' = Append(trace, Event("enter", ctl.node.callee, IntV(0)))
    /\ \E calls_at_once \in BOOLEAN :
          futures' = futures
              \o (IF calls_at_once
                  THEN <<Future("closure", ctl.node.callee, "suspended")>> ELSE <<>>)
              \o <<Future("decorator", ctl.node.callee, "suspended")>>
    /\ ctl' = [m |-> "ret", val |-> FutureV(ctl.node), early |-> FALSE]
    /\ UNCHANGED <<exampleVars, session, attr, item, callArgs, pc, decorator_list, decorated_body, output,
                   stack, env, result>>

\* the `.await` that ends the emitted body: the future of the outermost decorator
\* runs, `f().await` inside it running the closure's async block
ClosureCalled(callee) ==
    \E i \in 1..Len(futures) : futures[i].who = "closure" /\ futures[i].callee = callee

Polled(fs, callee) ==
    [i \in 1..Len(fs) |-> IF fs[i].callee = callee THEN [fs[i] EXCEPT !.state = "polled"]
                          ELSE fs[i]]

Await ==
    /\ Returning("await")
    /\ ctl.val.v = "future"
    /\ futures' = Polled(IF ClosureCalled(ctl.val.node.callee) THEN futures
                         ELSE Append(futures, Future("closure", ctl.val.node.callee,
                                                     "suspended")),
                         ctl.val.node.callee)
    /\ stack' = <<[f |-> "closure"], [f |-> "decorator", callee |-> ctl.val.node.callee]>>
                    \o Tail(stack)
    /\ ctl' = [m |-> "eval", node |-> ctl.val.node.body]
    /\ UNCHANGED <<exampleVars, session, attr, item, callArgs, pc, decorator_list, decorated_body, output,
                   env, trace, result>>

\* `{ let (names) = transform(names); body }`
EvalLetParams ==
    /\ Evaluating({"let_params"})
    /\ env' = ApplyParamTransform(ctl.node.f, env)
    /\ trace' = Append(trace, Event("transform_params", [f |-> ctl.node.f], IntV(0)))
    /\ ctl' = [m |-> "eval", node |-> ctl.node.body]
    /\ UNCHANGED <<exampleVars, session, attr, item, callArgs, pc, decorator_list, decorated_body, output,
                   stack, result,
                   futures>>

\* `{ pre; body }`
EvalPre ==
    /\ Evaluating({"pre"})
    /\ trace' = Append(trace, Event("pre", [e |-> ctl.node.e], IntV(0)))
    /\ ctl' = [m |-> "eval", node |-> ctl.node.body]
    /\ UNCHANGED <<exampleVars, session, attr, item, callArgs, pc, decorator_list, decorated_body, output,
                   stack, env, result,
                   futures>>

\* `{ let __decorate_result = body; post; __decorate_result }`: the body first
EvalPost ==
    /\ Evaluating({"post"})
    /\ stack' = Push([f |-> "post", e |-> ctl.node.e])
    /\ ctl' = [m |-> "eval", node |-> ctl.node.body]
    /\ UNCHANGED <<exampleVars, session, attr, item, callArgs, pc, decorator_list, decorated_body, output,
                   env, trace, result,
                   futures>>

\* `{ let __decorate_result = body; transform(__decorate_result) }`: the body first
EvalTransformResult ==
    /\ Evaluating({"transform_result"})
    /\ stack' = Push([f |-> "transform_result", fn |-> ctl.node.f])
    /\ ctl' = [m |-> "eval", node |-> ctl.node.body]
    /\ UNCHANGED <<exampleVars, session, attr, item, callArgs, pc, decorator_list, decorated_body, output,
                   env, trace, result,
                   futures>>

\* the original block
EvalOriginalBody ==
    /\ Evaluating({"orig"})
    /\ trace' = Append(trace, Event("body", [block |-> ctl.node.block], IntV(Sum(env))))
    /\ ctl' = [m |-> "ret", val |-> IntV(Sum(env)),
               early |-> ctl.node.block.kind = "return"]
    /\ UNCHANGED <<exampleVars, session, attr, item, callArgs, pc, decorator_list, decorated_body, output,
                   stack, env, result,
                   futures>>

\* a `return` ends at the closure it is written in; so does the closure's last value
ReturnFromClosure ==
    /\ Returning("closure")
    /\ ctl' = [ctl EXCEPT !.early = FALSE]
    /\ stack' = Tail(stack)
    /\ UNCHANGED <<exampleVars, session, attr, item, callArgs, pc, decorator_list, decorated_body, output,
                   env, trace, result,
                   futures>>

ReturnFromDecorator ==
    /\ Returning("decorator")
    /\ trace' = Append(trace, Event("leave", Top.callee, ctl.val))
    /\ stack' = Tail(stack)
    /\ UNCHANGED <<exampleVars, session, attr, item, callArgs, pc, decorator_list, decorated_body, output,
                   ctl, env, result,
                   futures>>

\* the rest of a post block, which a `return` on its way out skips
ReturnThroughPost ==
    /\ Returning("post")
    /\ trace' = IF ctl.early THEN trace
                ELSE Append(trace, Event("post", [e |-> Top.e], ctl.val))
    /\ stack' = Tail(stack)
    /\ UNCHANGED <<exampleVars, session, attr, item, callArgs, pc, decorator_list, decorated_body, output,
                   ctl, env, result,
                   futures>>

\* the rest of a result-transform block, which a `return` on its way out skips
ReturnThroughTransformResult ==
    /\ Returning("transform_result")
    /\ IF ctl.early
       THEN UNCHANGED <<ctl, trace>>
       ELSE /\ ctl' = [ctl EXCEPT !.val = IntV(ApplyResultTransform(Top.fn, ctl.val.n))]
            /\ trace' = Append(trace, Event("transform_result", [f |-> Top.fn], ctl.val))
    /\ stack' = Tail(stack)
    /\ UNCHANGED <<exampleVars, session, attr, item, callArgs, pc, decorator_list, decorated_body, output,
                   env, result,
                   futures>>

\* the emitted function returns to its caller
Finish ==
    /\ pc = "running"
    /\ ctl.m = "ret"
    /\ Len(stack) = 0
    /\ result' = Some(ctl.val)
    /\ pc' = "done"
    /\ UNCHANGED <<exampleVars, session, attr, item, callArgs, decorator_list, decorated_body, output,
                   ctl, stack, env, trace,
                   futures>>

(***************************************************************************)
(* Bounds and the inputs they span.                                        *)
(***************************************************************************)
MaxDecorators == 3   \* entries of a list without configuration
MaxWrapped == 2      \* entries of a list in which one entry is configured
MaxArgs == 2         \* positional arguments of one entry
MaxArgVal == 2       \* values the caller passes are 1..MaxArgVal
MaxSegs == 3         \* dot-separated segments of a self-path literal

RECURSIVE Join(_, _)
Join(parts, sep) ==
    IF Len(parts) = 0 THEN <<>>
    ELSE IF Len(parts) = 1 THEN parts[1]
    ELSE parts[1] \o sep \o Join(Tail(parts), sep)

\* the i-th decorator, as a path and as a self-path literal
DecoratorNames == <<"A", "B", "C", "D", "E">>
MemberNames == <<"a", "b", "g", "h", "i">>
PathRef(i) == Ident(DecoratorNames[i])
SelfRef(i) == LitStr(SelfWord \o <<".">> \o <<MemberNames[i]>>)

\* a written argument list: its expressions and whether a comma follows the last
ArgExprs == <<ExprTok("arg1"), ExprTok("arg2"), ExprTok("arg3")>>
WrittenArgs(n, trailing) ==
    Paren(Join([i \in 1..n |-> <<ArgExprs[i]>>], <<Comma>>)
          \o (IF trailing THEN <<Comma>> ELSE <<>>))

\* configuration pairs as written: `key = value,`
PairTokens(key, fns) ==
    <<Ident(key), EqTok>>
    \o (CASE key = "pre" -> <<ExprTok("pre_hook")>>
          [] key = "post" -> <<ExprTok("post_hook")>>
          [] key = "transform_params" -> <<Ident(fns[1])>>
          [] key = "transform_result" -> <<Ident(fns[2])>>)
    \o <<Comma>>

KeyOrder == <<"transform_params", "pre", "post", "transform_result">>
\* the order of test_transform_order (tests/pass/transform_params.rs)
KeyOrderOfTest == <<"pre", "transform_params", "transform_result", "post">>
TransformChoices == {<<"transform_params", "transform_result">>,
                     <<"double_params", "add_one_result">>}

RECURSIVE PairsOf(_, _, _)
PairsOf(order, keys, fns) ==
    IF Len(order) = 0 THEN <<>>
    ELSE (IF Head(order) \in keys THEN PairTokens(Head(order), fns) ELSE <<>>)
         \o PairsOf(Tail(order), keys, fns)

WrittenPairs ==
    {PairsOf(KeyOrder, keys, fns) :
        keys \in (SUBSET {"transform_params", "pre", "post", "transform_result"}) \ {{}},
        fns \in TransformChoices}
    \cup {PairsOf(KeyOrderOfTest, {"transform_params", "pre", "post", "transform_result"},
                  fns) : fns \in TransformChoices}

\* lists of 1..MaxDecorators entries without configuration, each a path or a
\* self-path, with or without one argument
PlainEntry(i, c) ==
    <<IF c.self THEN SelfRef(i) ELSE PathRef(i)>>
    \o (IF c.args THEN <<WrittenArgs(1, FALSE)>> ELSE <<>>)

PlainLists ==
    UNION {{Join([i \in 1..k |-> PlainEntry(i, f[i])], <<Comma>>) :
                f \in [1..k -> [self : BOOLEAN, args : BOOLEAN]]} :
           k \in 1..MaxDecorators}

\* lists of 1..MaxWrapped path entries, the j-th carrying configuration pairs
ConfiguredLists ==
    UNION {{Join([i \in 1..k |-> (IF i = j THEN pairs ELSE <<>>) \o <<PathRef(i)>>],
                 <<Comma>>) :
                j \in 1..k, pairs \in WrittenPairs} :
           k \in 1..MaxWrapped}

\* one entry with each way of writing the argument list
ArgumentLists ==
    {<<ref>> : ref \in {PathRef(1), SelfRef(1)}}
    \cup {<<ref, WrittenArgs(n, trailing)>> :
             ref \in {PathRef(1), SelfRef(1)}, n \in 0..MaxArgs, trailing \in BOOLEAN}

\* one entry whose reference is a string literal of 1..MaxSegs segments
SegmentChoices ==
    {SelfWord, <<"S", "e", "l", "f">>, <<"s", "e", "l", "f", "i", "s", "h">>,
     <<"o", "t", "h", "e", "r">>, <<"a">>, <<>>, <<"1", "a">>, <<"a", "-", "b">>,
     <<"_", "b", "1">>}
PathStrings ==
    UNION {{Join(segs, <<".">>) : segs \in [1..k -> SegmentChoices]} : k \in 1..MaxSegs}
LiteralLists == {<<LitStr(s)>> : s \in PathStrings}

\* lists with a configuration key that is none of the four: after nothing, after a
\* whole entry, after a known pair (with and without its comma), after a literal
\* that is no self-path; the braces of tests/fail/invalid_meta.rs
UnknownKeys == {"invalid_option", "timeout", "Pre"}
BeforeUnknownKey ==
    {<<>>, <<PathRef(1), Comma>>, <<SelfRef(1), WrittenArgs(1, FALSE), Comma>>,
     PairTokens("pre", <<>>), <<Ident("post"), EqTok, ExprTok("post_hook")>>,
     <<LitStr(<<"o", "t", "h", "e", "r">>), Comma>>}
AfterUnknownKey ==
    {<<>>, <<ExprTok("v")>>, <<LitStr(<<"t", "e", "s", "t">>), Comma, PathRef(2)>>,
     <<Ident("v"), Comma, Ident("timeout"), EqTok, ExprTok("w"), Comma, PathRef(2)>>}
UnknownKeyLists ==
    {b \o <<Ident(key), EqTok>> \o a :
        b \in BeforeUnknownKey, key \in UnknownKeys, a \in AfterUnknownKey}
    \cup {<<Brace(<<Ident("invalid_option"), EqTok, LitStr(<<"t", "e", "s", "t">>)>>),
            Comma, PathRef(1)>>}

\* lists that end after a configuration pair, the decorator reference missing
MissingReferenceLists ==
    UNION {{p, <<PathRef(1), Comma>> \o p, SubSeq(p, 1, 3)} :
              p \in {PairTokens(key, <<"transform_params", "transform_result">>) :
                         key \in {"pre", "post", "transform_params", "transform_result"}}}

\* lists of 1..MaxDecorators path entries, some of them carrying a pre and a post
\* hook of their own
PreHooks == <<ExprTok("pre_1"), ExprTok("pre_2"), ExprTok("pre_3"), ExprTok("pre_4")>>
PostHooks == <<ExprTok("post_1"), ExprTok("post_2"), ExprTok("post_3"), ExprTok("post_4")>>
HookedEntry(i, hooked) ==
    (IF hooked THEN <<Ident("pre"), EqTok, PreHooks[i], Comma,
                      Ident("post"), EqTok, PostHooks[i], Comma>>
     ELSE <<>>)
    \o <<PathRef(i)>>
HookedLists ==
    UNION {{Join([i \in 1..k |-> HookedEntry(i, i \in H)], <<Comma>>) :
                H \in (SUBSET (1..k)) \ {{}}} :
           k \in 1..MaxDecorators}

\* one entry in which a key is written twice, with two values, a pair of another
\* key before, between or after the two or nowhere; and the same after a plain entry
ValuesOfKey(key) ==
    CASE key = "pre" -> <<PreHooks[1], PreHooks[2]>>
      [] key = "post" -> <<PostHooks[1], PostHooks[2]>>
      [] key = "transform_params" -> <<Ident("transform_params"), Ident("double_params")>>
      [] key = "transform_result" -> <<Ident("transform_result"), Ident("add_one_result")>>
Pair(key, n) == <<Ident(key), EqTok, ValuesOfKey(key)[n], Comma>>
RepeatedPairs ==
    UNION {{Pair(key, first) \o Pair(key, 3 - first),
            Pair(other, 1) \o Pair(key, first) \o Pair(key, 3 - first),
            Pair(key, first) \o Pair(other, 1) \o Pair(key, 3 - first),
            Pair(key, first) \o Pair(key, 3 - first) \o Pair(other, 1),
            Pair(key, first) \o Pair(key, first) \o Pair(key, 3 - first)} :
              key \in {"pre", "post", "transform_params", "transform_result"},
              other \in {"pre", "transform_result"}, first \in 1..2}
RepeatedKeyLists ==
    {pairs \o <<PathRef(1)>> : pairs \in RepeatedPairs}
    \cup {<<PathRef(1), Comma>> \o pairs \o <<PathRef(2)>> : pairs \in RepeatedPairs}

\* lists of 1..MaxDecorators path entries
PathLists ==
    {Join([i \in 1..k |-> <<PathRef(i)>>], <<Comma>>) : k \in 1..MaxDecorators}

\* annotated items
P2 == <<TypedIdent("x"), TypedIdent("y")>>
PM == <<Receiver, TypedPattern, TypedIdent("x")>>
P0 == <<TypedPattern>>
Fn(inputs, blockKind) ==
    [is_fn |-> TRUE, attrs |-> <<>>, vis |-> "inherited",
     sig |-> [constness |-> FALSE, asyncness |-> FALSE, unsafety |-> FALSE,
              ident |-> "f", generics |-> [params |-> <<>>, where_clause |-> None],
              inputs |-> inputs, output |-> "i32"],
     block |-> [kind |-> blockKind]]
FreeFn == Fn(P2, "tail")
Method == Fn(PM, "tail")
ConstFn == [FreeFn EXCEPT !.sig.constness = TRUE]
ConstMethod == [Method EXCEPT !.sig.constness = TRUE, !.vis = "pub"]
AsyncFn == [FreeFn EXCEPT !.sig.asyncness = TRUE]
ConstAsyncFn == [FreeFn EXCEPT !.sig.asyncness = TRUE, !.sig.constness = TRUE]
GenericFn == [FreeFn EXCEPT !.sig.generics.params = <<"T">>]
GenericWhereFn ==
    [FreeFn EXCEPT !.sig.generics = [params |-> <<"T", "U">>,
                                     where_clause |-> Some("T: Debug, U: Debug")],
                   !.sig.output = "String"]
PubAttrFn == [FreeFn EXCEPT !.vis = "pub", !.attrs = <<"inline", "doc">>]
UnsafeFn == [FreeFn EXCEPT !.sig.unsafety = TRUE, !.vis = "pub(crate)"]
MethodMut == Fn(<<ReceiverMut, TypedIdent("x")>>, "tail")
AcceptedShapes == {GenericFn, GenericWhereFn, PubAttrFn, UnsafeFn, MethodMut}
NotAFn == [FreeFn EXCEPT !.is_fn = FALSE]
\* `const fn f(x: i32, y: i32) -> i32;`: the keyword is there, the item is no ItemFn
ConstFnUnparsable == [ConstFn EXCEPT !.is_fn = FALSE]
Selfish == <<"s", "e", "l", "f", "i", "s", "h">>
ItemShapes == {FreeFn, Method, ConstFn, ConstMethod, AsyncFn, ConstAsyncFn,
               GenericFn, NotAFn}

ArgsOneUp(it) == [i \in 1..Len(extract_param_names(it.sig.inputs)) |-> i]
AllArgs(it) == [1..Len(extract_param_names(it.sig.inputs)) -> 1..MaxArgVal]
Input(a, it, args) == [attr |-> a, item |-> it, args |-> args]

Inputs ==
    {Input(a, it, ArgsOneUp(it)) : a \in PlainLists \cup ArgumentLists,
                                   it \in {FreeFn, Method}}
    \cup UNION {{Input(a, it, args) : a \in ConfiguredLists, args \in AllArgs(it)} :
                   it \in {Fn(ps, bk) : ps \in {P2, PM, P0}, bk \in {"tail", "return"}}}
    \cup {Input(a, Method, ArgsOneUp(Method)) : a \in LiteralLists}
    \cup {Input(<<>>, it, ArgsOneUp(it)) : it \in ItemShapes}
    \cup {Input(a, it, ArgsOneUp(it)) :
             a \in PlainLists \cup ConfiguredLists \cup ArgumentLists,
             it \in {ConstFn, ConstMethod}}
    \cup {Input(a, it, ArgsOneUp(it)) : a \in PathLists \cup ArgumentLists,
                                       it \in AcceptedShapes}
    \cup {Input(a, AsyncFn, ArgsOneUp(AsyncFn)) : a \in PathLists \cup ConfiguredLists}
    \cup {Input(a, it, ArgsOneUp(it)) : a \in UnknownKeyLists \cup MissingReferenceLists,
                                       it \in {FreeFn, ConstFn, NotAFn}}
    \cup {Input(a, FreeFn, ArgsOneUp(FreeFn)) : a \in RepeatedKeyLists}
    \cup {Input(a, it, ArgsOneUp(it)) :
             a \in PathLists \cup MissingReferenceLists \cup {<<>>, <<LitStr(Selfish)>>},
             it \in {NotAFn, ConstFnUnparsable, ConstMethod}}
    \cup {Input(a, it, ArgsOneUp(it)) : a \in HookedLists,
                                       it \in {FreeFn, Fn(P2, "return")}}

(***************************************************************************)
(* The specification.                                                      *)
(***************************************************************************)
\* the macro runs at compile time: none of the example decorators is running
ExamplesNotRunning ==
    /\ clock = 0
    /\ cb_args = <<>> /\ breakers = <<>> /\ cb_calls = <<>>
    /\ rl_args = <<>> /\ limiters = <<>> /\ rl_calls = <<>> /\ executions = <<>>
    /\ rt_args = <<>> /\ rt_call = <<>>

Init ==
    /\ \E in \in Inputs : attr = in.attr /\ item = in.item /\ callArgs = in.args
    /\ session = <<>>
    /\ ExamplesNotRunning
    /\ pc = "start"
    /\ decorator_list = None
    /\ decorated_body = None
    /\ output = NoOutput
    /\ ctl = [m |-> "idle"]
    /\ stack = <<>>
    /\ env = <<>>
    /\ trace = <<>>
    /\ futures = <<>>
    /\ result = None

Next ==
    \/ ParseAttr
    \/ ParseItem
    \/ CheckConst
    \/ Compose
    \/ Emit
    \/ Invoke
    \/ HostReject
    \/ EvalDecoratorCall
    \/ EvalAsyncDecoratorCall
    \/ Await
    \/ EvalLetParams
    \/ EvalPre
    \/ EvalPost
    \/ EvalTransformResult
    \/ EvalOriginalBody
    \/ ReturnFromClosure
    \/ ReturnFromDecorator
    \/ ReturnThroughPost
    \/ ReturnThroughTransformResult
    \/ Finish

Spec == Init /\ [][Next]_vars

(***************************************************************************)
(* One compilation: the compiler calls `decorate` once for every annotated *)
(* function, one call after the other, in the same process.                *)
(***************************************************************************)
MaxRuns == 3

SelfAB == <<"s", "e", "l", "f", ".", "a", ".", "b">>
SessionInputs ==
    {Input(<<LitStr(SelfAB)>>, Method, ArgsOneUp(Method)),
     Input(<<LitStr(SelfAB), WrittenArgs(1, FALSE), Comma, PathRef(2)>>, Method,
           ArgsOneUp(Method)),
     Input(<<PathRef(1)>>, FreeFn, ArgsOneUp(FreeFn)),
     Input(PairTokens("pre", <<>>) \o <<PathRef(1)>>, FreeFn, ArgsOneUp(FreeFn)),
     Input(<<PathRef(1), Comma, PathRef(2)>>, ConstFn, ArgsOneUp(ConstFn)),
     Input(<<LitStr(<<"s", "e", "l", "f", ".", ".", "a">>)>>, Method, ArgsOneUp(Method)),
     Input(<<>>, FreeFn, ArgsOneUp(FreeFn))}

SessionInit ==
    /\ \E in \in SessionInputs : attr = in.attr /\ item = in.item /\ callArgs = in.args
    /\ session = <<>>
    /\ ExamplesNotRunning
    /\ pc = "start"
    /\ decorator_list = None
    /\ decorated_body = None
    /\ output = NoOutput
    /\ ctl = [m |-> "idle"]
    /\ stack = <<>>
    /\ env = <<>>
    /\ trace = <<>>
    /\ futures = <<>>
    /\ result = None

\* `decorate` has returned; the compiler calls it for the next annotated function
NextInvocation ==
    /\ pc \in {"rejected", "expanded"}
    /\ Len(session) + 1 < MaxRuns
    /\ session' = Append(session, [attr |-> attr, item |-> item, output |-> output])
    /\ \E in \in SessionInputs : attr' = in.attr /\ item' = in.item /\ callArgs' = in.args
    /\ pc' = "start"
    /\ decorator_list' = None
    /\ decorated_body' = None
    /\ output' = NoOutput
    /\ UNCHANGED <<exampleVars, ctl, stack, env, trace, futures, result>>

SessionNext ==
    \/ ParseAttr
    \/ ParseItem
    \/ CheckConst
    \/ Compose
    \/ Emit
    \/ NextInvocation

SessionSpec == SessionInit /\ [][SessionNext]_vars

(***************************************************************************)
(* Properties.                                                             *)
(***************************************************************************)
Decorators == Unwrap(decorator_list).decorators.items
Emitted == pc \in {"expanded", "compile_error", "running", "done"}

IsPrefix(a, b) == Len(a) <= Len(b) /\ SubSeq(b, 1, Len(a)) = a
Shape(tr) == [i \in 1..Len(tr) |-> [ev |-> tr[i].ev, who |-> tr[i].who]]
CallEvents(tr) == SelectSeq(tr, LAMBDA e : e.ev \in {"enter", "body", "leave"})
Enter(path) == [ev |-> "enter", who |-> path]
Leave(path) == [ev |-> "leave", who |-> path]
Body == [ev |-> "body", who |-> [block |-> item.block]]
Left(name) == [e |-> "Left", path |-> name]
SelfMember(m) == [e |-> "Right",
                  expr |-> [k |-> "field", base |-> [k |-> "self"], member |-> <<m>>]]

\* D1 .. Dn entered in source order, the body once, Dn .. D1 left
ExpectedNesting ==
    LET n == Len(Decorators) IN
    [i \in 1..n |-> Enter(Decorators[i].path)]
    \o <<Body>>
    \o [i \in 1..n |-> Leave(Decorators[n + 1 - i].path)]

\* C1: in every run of an emitted function the decorators are entered in source
\* order D1..Dn, then the original body runs exactly once, then the decorators are
\* left in reverse order Dn..D1; at every moment of the run the calls made so far
\* are a prefix of that sequence.
C1_NestedInSourceOrder ==
    pc \in {"running", "done"} =>
        /\ IsPrefix(Shape(CallEvents(trace)), ExpectedNesting)
        /\ pc = "done" => Shape(CallEvents(trace)) = ExpectedNesting

\* a finished run of [A, "self.b", C]: A, self.b, C entered, body, C, self.b, A left
C1_Witness ==
    /\ pc = "done"
    /\ Len(Decorators) = 3
    /\ Shape(trace) = <<Enter(Left("A")), Enter(SelfMember("b")), Enter(Left("C")),
                        Body,
                        Leave(Left("C")), Leave(SelfMember("b")), Leave(Left("A"))>>

\* C2: for a list of exactly one decorator without configuration and without
\* arguments the emitted body is decorator(|| original_body): one call of that
\* decorator, its only argument the closure, the closure's body the original block
\* unchanged; a run enters the decorator once, runs the body and returns its value.
C2_SingletonIsIdentityWrap ==
    (Len(attr) = 1 /\ attr[1].t \in {"ident", "lit"} /\ IsSome(decorator_list)) =>
        /\ Emitted =>
              /\ output.body.k \in {"validated_call", "direct_call"}
              /\ output.body.callee = Decorators[1].path
              /\ attr[1].t = "ident" => output.body.callee = Left(attr[1].name)
              /\ output.body.call_tokens = <<ClosureTok>>
              /\ output.body.body = [k |-> "orig", block |-> item.block]
        /\ pc = "done" =>
              /\ Shape(trace) = <<Enter(Decorators[1].path), Body,
                                  Leave(Decorators[1].path)>>
              /\ result = Some(IntV(Sum(callArgs)))

\* f(1, 2) decorated with [A] has run and returned 3
C2_Witness ==
    /\ pc = "done"
    /\ attr = <<Ident("A")>>
    /\ callArgs = <<1, 2>>
    /\ result = Some(IntV(3))

\* the decorator calls of an emitted body, outermost first
RECURSIVE CallNodes(_)
CallNodes(node) ==
    CASE node.k = "orig" -> <<>>
      [] node.k \in {"validated_call", "direct_call"} -> <<node>> \o CallNodes(node.body)
      [] OTHER -> CallNodes(node.body)

WrittenArguments(d) == IF IsSome(d.args) THEN Unwrap(d.args).items ELSE <<>>

\* C3: for every entry, however its argument list is written (absent, empty,
\* non-empty, with a trailing comma), the argument positions of the emitted call are
\* exactly the entry's argument expressions in source order followed by the closure.
C3_ArgumentsThenClosure ==
    Emitted =>
        \A i \in 1..Len(Decorators) :
            ArgRuns(CallNodes(output.body)[i].call_tokens, 1, <<>>)
                = WrittenArguments(Decorators[i]) \o << <<ClosureTok>> >>

\* the configuration wrappers between a decorator call and the next call or the
\* original body, outermost first
RECURSIVE ConfigKinds(_)
ConfigKinds(node) ==
    IF node.k \in {"orig", "validated_call", "direct_call"} THEN <<>>
    ELSE <<node.k>> \o ConfigKinds(node.body)

Rank(order, kind) == CHOOSE i \in 1..Len(order) : order[i] = kind
InOrder(kinds, order) ==
    \A i, j \in 1..Len(kinds) : i < j => Rank(order, kinds[i]) < Rank(order, kinds[j])

\* C4 as stated: the wrappers of one entry nest, outermost first, as parameter
\* transform, pre hook, post hook, result transform.
C4_ParamsOutermost ==
    Emitted =>
        \A i \in 1..Len(Decorators) :
            InOrder(ConfigKinds(CallNodes(output.body)[i].body),
                    <<"let_params", "pre", "post", "transform_result">>)

\* the wrappers an entry's configuration asks for, in the order the code nests them
NestingOf(d) ==
    IF ~IsSome(d.config) THEN <<>>
    ELSE LET c == Unwrap(d.config) IN
         (IF IsSome(c.transform_result) THEN <<"transform_result">> ELSE <<>>)
         \o (IF IsSome(c.post_code) THEN <<"post">> ELSE <<>>)
         \o (IF IsSome(c.pre_code) THEN <<"pre">> ELSE <<>>)
         \o (IF IsSome(c.transform_params)
                /\ \E n \in 1..Len(item.sig.inputs) :
                       item.sig.inputs[n].arg = "Typed" /\ item.sig.inputs[n].pat = "Ident"
             THEN <<"let_params">> ELSE <<>>)

\* C4 amended: the wrappers of one entry nest, outermost first, as result transform,
\* post hook, pre hook, parameter transform (the parameter transform closest to the
\* original body), each present exactly when its field is set (the parameter
\* transform only when the function has a plainly named parameter).
C4_ResultTransformOutermost ==
    Emitted =>
        \A i \in 1..Len(Decorators) :
            ConfigKinds(CallNodes(output.body)[i].body) = NestingOf(Decorators[i])

\* an emitted body whose single entry carries all four wrappers
C4_Witness ==
    /\ Emitted
    /\ Len(Decorators) = 1
    /\ ConfigKinds(output.body.body)
           = <<"transform_result", "post", "pre", "let_params">>

Config(d) == Unwrap(d.config)
SimpleParams ==
    \A n \in 1..Len(item.sig.inputs) :
        item.sig.inputs[n].arg = "Typed" /\ item.sig.inputs[n].pat = "Ident"
Count(ev) == Len(SelectSeq(trace, LAMBDA e : e.ev = ev))
Kinds(tr) == [i \in 1..Len(tr) |-> tr[i].ev]

\* C5: a function whose parameters are all simple named ones, decorated by one
\* entry with transform_params = tp and transform_result = tr, returns
\* tr(body with the parameters rebound to tp(p)); tp and tr are each called once.
C5_TransformsCompose ==
    (/\ pc = "done"
     /\ SimpleParams
     /\ Len(Decorators) = 1
     /\ IsSome(Decorators[1].config)
     /\ IsSome(Config(Decorators[1]).transform_params)
     /\ IsSome(Config(Decorators[1]).transform_result)) =>
        LET tp == Unwrap(Config(Decorators[1]).transform_params)
            tr == Unwrap(Config(Decorators[1]).transform_result)
        IN /\ result = Some(IntV(ApplyResultTransform(tr,
                                     Sum(ApplyParamTransform(tp, callArgs)))))
           /\ Count("transform_params") = 1
           /\ Count("transform_result") = 1

\* C6: for any body, one that leaves through `return` included, decorated by one
\* entry with only pre and post configured, the returned value is the body's own,
\* pre is evaluated once before the body and post once after it.
C6_HooksAroundBody ==
    (/\ pc = "done"
     /\ Len(Decorators) = 1
     /\ IsSome(Decorators[1].config)
     /\ IsSome(Config(Decorators[1]).pre_code)
     /\ IsSome(Config(Decorators[1]).post_code)
     /\ ~IsSome(Config(Decorators[1]).transform_params)
     /\ ~IsSome(Config(Decorators[1]).transform_result)) =>
        /\ result = Some(IntV(Sum(callArgs)))
        /\ Kinds(trace) = <<"enter", "pre", "body", "post", "leave">>

\* C7: an empty decorator list is rejected with the "no decorators provided"
\* diagnosis whatever the annotated item is (a const function, an async, generic
\* or method function included), and no function is emitted.
C7_EmptyListRejected ==
    (attr = <<>> /\ pc # "start") =>
        /\ pc = "rejected"
        /\ output = Rejected(ErrorNew(CallSiteSpan, NO_DECORATORS, <<>>))
        /\ decorated_body = None

\* the empty list on a const function has been rejected
C7_Witness ==
    /\ attr = <<>>
    /\ item = ConstFn
    /\ pc = "rejected"
    /\ output.diags[1].msg = NO_DECORATORS

\* C8: a const function annotated with a well-formed non-empty decorator list is
\* rejected with the "cannot decorate const functions" diagnosis and its hint; the
\* body is never composed and no function is emitted.
C8_ConstFnRejected ==
    (/\ IsSome(decorator_list)
     /\ item.is_fn /\ item.sig.constness
     /\ pc \notin {"attr_parsed", "item_parsed"}) =>
        /\ pc = "rejected"
        /\ output = Rejected(<<[span |-> ConstTokenSpan, msg |-> CONST_FN_NOT_SUPPORTED,
                                arg |-> <<>>],
                               [span |-> ConstTokenSpan, msg |-> "help",
                                arg |-> <<CONST_FN_HELP>>]>>)
        /\ decorated_body = None

\* a const method under a list of two decorators has been rejected
C8_Witness ==
    /\ pc = "rejected"
    /\ item = ConstMethod
    /\ IsSome(decorator_list)
    /\ Len(Decorators) = 2
    /\ output.diags[1].msg = CONST_FN_NOT_SUPPORTED

\* the characters of s before its first dot
RECURSIVE BeforeFirstDot(_)
BeforeFirstDot(s) ==
    IF Len(s) = 0 \/ Head(s) = "." THEN <<>>
    ELSE <<Head(s)>> \o BeforeFirstDot(Tail(s))

LiteralFirst == Len(attr) >= 1 /\ attr[1].t = "lit"

\* C9: a self-path literal whose first dot-separated segment is not exactly `self`
\* is rejected with "path must start with 'self'" and nothing is emitted.
C9_MustStartWithSelf ==
    (LiteralFirst /\ BeforeFirstDot(attr[1].chars) # SelfWord /\ pc # "start") =>
        /\ pc = "rejected"
        /\ output = Rejected(ErrorNew(AttrSpan(1), SELF_PATH_MUST_START_WITH_SELF, <<>>))
        /\ decorated_body = None

\* "selfish" has been rejected
C9_Witness ==
    /\ attr = <<LitStr(<<"s", "e", "l", "f", "i", "s", "h">>)>>
    /\ pc = "rejected"
    /\ output.diags[1].msg = SELF_PATH_MUST_START_WITH_SELF

HasEmptySegment(s) == \E i \in 1..Len(split_dot(s)) : split_dot(s)[i] = <<>>
FirstEmptySegment(s) ==
    CHOOSE i \in 1..Len(split_dot(s)) :
        /\ split_dot(s)[i] = <<>>
        /\ \A j \in 1..(i - 1) : split_dot(s)[j] # <<>>

\* C10 as stated: a self-path literal with an empty segment anywhere (middle,
\* trailing, leading, or the empty string) is rejected with the empty-segment
\* diagnosis.
C10_EmptySegmentAlwaysDiagnosed ==
    (LiteralFirst /\ HasEmptySegment(attr[1].chars) /\ pc # "start") =>
        /\ pc = "rejected"
        /\ output = Rejected(ErrorNew(AttrSpan(1), SELF_PATH_EMPTY_SEGMENT, <<>>))

\* C10 amended: a self-path literal with an empty segment is always rejected; the
\* diagnosis is the empty-segment one when the first segment is `self` and every
\* segment before the first empty one is a valid identifier, "path must start with
\* 'self'" when the first segment is not `self` (a leading dot, the empty string),
\* and the invalid-identifier one, naming that segment, when an invalid segment
\* comes before the first empty one.
C10_EmptySegmentRejected ==
    (LiteralFirst /\ HasEmptySegment(attr[1].chars) /\ pc # "start") =>
        LET segs == split_dot(attr[1].chars)
            e == FirstEmptySegment(attr[1].chars)
            bad == {j \in 2..(e - 1) : ~is_valid_identifier(segs[j])}
        IN /\ pc = "rejected"
           /\ decorated_body = None
           /\ output = Rejected(
                IF segs[1] # SelfWord
                THEN ErrorNew(AttrSpan(1), SELF_PATH_MUST_START_WITH_SELF, <<>>)
                ELSE IF bad # {}
                THEN ErrorNew(AttrSpan(1), SELF_PATH_INVALID_SEGMENT,
                              segs[CHOOSE j \in bad : \A k \in bad : j <= k])
                ELSE ErrorNew(AttrSpan(1), SELF_PATH_EMPTY_SEGMENT, <<>>))

\* "self..a" has been rejected for its empty segment
C10_Witness ==
    /\ attr = <<LitStr(<<"s", "e", "l", "f", ".", ".", "a">>)>>
    /\ pc = "rejected"
    /\ output.diags[1].msg = SELF_PATH_EMPTY_SEGMENT

ValidKeys == {"pre", "post", "transform_params", "transform_result"}

\* an identifier followed by `=` where an entry or a further pair may begin: at the
\* front, after a comma, or right after the value of a pair
KeyPosition(i) ==
    /\ i + 1 <= Len(attr)
    /\ attr[i].t = "ident" /\ attr[i + 1].t = "eq"
    /\ \/ i = 1
       \/ attr[i - 1].t = "comma"
       \/ i >= 4 /\ attr[i - 3].t = "ident" /\ attr[i - 2].t = "eq"
UnknownKeyPositions == {i \in 1..Len(attr) : KeyPosition(i) /\ attr[i].name \notin ValidKeys}
FirstUnknownKey == CHOOSE i \in UnknownKeyPositions : \A j \in UnknownKeyPositions : i <= j

\* C11: a configuration key other than pre, post, transform_params,
\* transform_result makes the transformation fail with the
\* unknown-configuration-option diagnosis anchored at that key together with the
\* hint listing the four valid keys, unless a token before the key was diagnosed
\* first; no decorator entry and no function is produced.
C11_UnknownKeyRejected ==
    (UnknownKeyPositions # {} /\ pc # "start") =>
        /\ pc = "rejected"
        /\ decorator_list = None
        /\ decorated_body = None
        /\ output.kind = "error"
        /\ \/ output.diags = <<[span |-> AttrSpan(FirstUnknownKey),
                                msg |-> UNKNOWN_CONFIG_OPTION, arg |-> <<>>],
                               [span |-> AttrSpan(FirstUnknownKey), msg |-> "help",
                                arg |-> <<UNKNOWN_CONFIG_HELP>>]>>
           \/ /\ output.diags[1].span.at = "attr"
              /\ output.diags[1].span.pos < FirstUnknownKey

\* `A, invalid_option = "test", B` has been rejected at its third token
C11_Witness ==
    /\ attr = <<Ident("A"), Comma, Ident("invalid_option"), EqTok,
                LitStr(<<"t", "e", "s", "t">>), Comma, Ident("B")>>
    /\ pc = "rejected"
    /\ output.diags[1] = [span |-> AttrSpan(3), msg |-> UNKNOWN_CONFIG_OPTION,
                          arg |-> <<>>]

\* C12: awaiting the emitted form of an async function under k >= 1
\* unconfigured decorators of the async call shape yields the body's value with
\* every suspension layer resolved, for every k.
C12_AsyncFullyResolved ==
    (/\ pc \in {"compile_error", "done"}
     /\ item.sig.asyncness
     /\ BodyParses(output.body)
     /\ \A i \in 1..Len(Decorators) : Decorators[i].config = None) =>
        /\ pc = "done"
        /\ result = Some(IntV(Sum(callArgs)))

\* C13: the emitted function differs from the original only in its body: the
\* other attributes, the visibility and the whole signature (name, generics and
\* where-clause, parameters with the receiver, return type, qualifiers) are the
\* original's.
C13_OnlyBodyChanges ==
    output.kind = "fn" =>
        /\ output.attrs = item.attrs
        /\ output.vis = item.vis
        /\ output.sig = item.sig
        /\ output.body = Unwrap(decorated_body)

\* a pub function carrying two other attributes has been emitted
C13_Witness ==
    /\ pc = "expanded"
    /\ item = PubAttrFn
    /\ output.kind = "fn"
    /\ output.vis = "pub"
    /\ output.attrs = <<"inline", "doc">>

PastValidation == pc \notin {"start", "attr_parsed", "item_parsed"}

IsGeneric == Len(item.sig.generics.params) > 0
OnePassThrough == Len(attr) = 1 /\ attr[1].t = "ident"

MalformedSelfPath ==
    /\ LiteralFirst
    /\ LET segs == split_dot(attr[1].chars) IN
       \/ segs[1] # SelfWord
       \/ \E i \in 1..Len(segs) : segs[i] = <<>>
       \/ \E i \in 2..Len(segs) : ~is_valid_identifier(segs[i])
MissingReference ==
    \E m \in {Len(attr) - 1, Len(attr)} :
        /\ m >= 3
        /\ attr[m - 2].t = "ident" /\ attr[m - 1].t = "eq"
        /\ m = Len(attr) \/ attr[Len(attr)].t = "comma"
FatalError ==
    \/ UnknownKeyPositions # {}
    \/ attr = <<>>
    \/ MalformedSelfPath
    \/ MissingReference
    \/ item.is_fn /\ item.sig.constness

\* C16: on every fatal error the transformation ends with the diagnostic as its
\* whole output: the original function is not emitted, no body has been composed,
\* no wrapped function exists to run.
C16_DiagnosticOnly ==
    /\ (FatalError /\ PastValidation) => pc = "rejected"
    /\ pc = "rejected" =>
          /\ DOMAIN output = {"kind", "diags"}
          /\ output.kind = "error"
          /\ Len(output.diags) >= 1
          /\ decorated_body = None
          /\ trace = <<>> /\ result = None

\* `A, post = post_hook,` has been rejected: no reference follows the pair
C16_Witness ==
    /\ attr = <<Ident("A"), Comma, Ident("post"), EqTok, ExprTok("post_hook"), Comma>>
    /\ pc = "rejected"
    /\ output.diags[1].msg = SYN_PARSE_ERROR
    /\ output.diags[1].span = AttrSpan(7)

MaxCallers == 2
MaxThreshold == 2
MaxTimeout == 2
MaxClock == 3
MaxFailures == 3

Callers == 1..MaxCallers
BreakerName == "api"
EmptyMap == [n \in {} |-> <<>>]

\* CircuitBreaker::new
CircuitBreakerNew(failure_threshold, success_threshold, timeout) ==
    [state |-> "Closed", failure_count |-> 0, success_count |-> 0,
     last_failure_time |-> None, failure_threshold |-> failure_threshold,
     success_threshold |-> success_threshold, timeout |-> timeout]

\* mutant: the breaker leaves Open only after more than the timeout
can_execute_after(b, now) ==
    CASE b.state = "Closed" -> [breaker |-> b, allowed |-> TRUE]
      [] b.state = "Open" ->
             IF IsSome(b.last_failure_time)
             THEN IF now - Unwrap(b.last_failure_time) > b.timeout
                  THEN [breaker |-> [b EXCEPT !.state = "HalfOpen", !.success_count = 0],
                        allowed |-> TRUE]
                  ELSE [breaker |-> b, allowed |-> FALSE]
             ELSE [breaker |-> b, allowed |-> TRUE]
      [] b.state = "HalfOpen" -> [breaker |-> b, allowed |-> TRUE]

\* CircuitBreaker::can_execute at instant `now`: the breaker afterwards and the answer
can_execute(b, now) ==
    CASE b.state = "Closed" -> [breaker |-> b, allowed |-> TRUE]
      [] b.state = "Open" ->
             IF IsSome(b.last_failure_time)
             THEN IF now - Unwrap(b.last_failure_time) >= b.timeout
                  THEN [breaker |-> [b EXCEPT !.state = "HalfOpen", !.success_count = 0],
                        allowed |-> TRUE]
                  ELSE [breaker |-> b, allowed |-> FALSE]
             ELSE [breaker |-> b, allowed |-> TRUE]
      [] b.state = "HalfOpen" -> [breaker |-> b, allowed |-> TRUE]

\* CircuitBreaker::record_success
record_success(b) ==
    CASE b.state = "HalfOpen" ->
             IF b.success_count + 1 >= b.success_threshold
             THEN [b EXCEPT !.state = "Closed", !.failure_count = 0, !.success_count = 0]
             ELSE [b EXCEPT !.success_count = b.success_count + 1]
      [] b.state = "Closed" -> [b EXCEPT !.failure_count = 0]
      [] OTHER -> b

\* mutant: the breaker opens only above the threshold
record_failure_above(b, now) ==
    LET c == [b EXCEPT !.failure_count = b.failure_count + 1,
                       !.last_failure_time = Some(now)]
    IN CASE b.state = "Closed" ->
                IF c.failure_count > c.failure_threshold
                THEN [c EXCEPT !.state = "Open"] ELSE c
         [] b.state = "HalfOpen" -> [c EXCEPT !.state = "Open", !.success_count = 0]
         [] OTHER -> c

\* CircuitBreaker::record_failure at instant `now`
record_failure(b, now) ==
    LET c == [b EXCEPT !.failure_count = b.failure_count + 1,
                       !.last_failure_time = Some(now)]
    IN CASE b.state = "Closed" ->
                IF c.failure_count >= c.failure_threshold
                THEN [c EXCEPT !.state = "Open"] ELSE c
         [] b.state = "HalfOpen" -> [c EXCEPT !.state = "Open", !.success_count = 0]
         [] OTHER -> c

\* breakers.entry(name).or_insert_with(..)
EntryOrInsert(map, name, fresh) ==
    IF name \in DOMAIN map THEN map
    ELSE [n \in DOMAIN map \cup {name} |-> IF n = name THEN fresh ELSE map[n]]

IdleCall == [pc |-> "idle", state_before |-> "Closed", result |-> "none"]

\* lock; entry; can_execute; either return the error or note the state and unlock
Admit(t) ==
    /\ cb_calls[t].pc = "idle"
    /\ LET map == EntryOrInsert(breakers, BreakerName,
                                CircuitBreakerNew(cb_args.failure_threshold,
                                                  cb_args.success_threshold,
                                                  cb_args.timeout_secs))
           r == can_execute(map[BreakerName], clock)
       IN /\ breakers' = [map EXCEPT ![BreakerName] = r.breaker]
          /\ cb_calls' = [cb_calls EXCEPT ![t] =
                 IF r.allowed
                 THEN [pc |-> "executing", state_before |-> r.breaker.state,
                       result |-> "none"]
                 ELSE [IdleCall EXCEPT !.result = "CircuitOpen"]]
    /\ UNCHANGED <<clock, cb_args, rl_args, limiters, rl_calls, executions, rt_args, rt_call, macroVars>>

PendingFailures ==
    Cardinality({u \in Callers : cb_calls[u].pc = "recording" /\ cb_calls[u].result = "Err"})

\* `let result = f();` the wrapped function succeeds or fails
Execute(t) ==
    /\ cb_calls[t].pc = "executing"
    /\ \E r \in {"Ok", "Err"} :
          /\ r = "Err" =>
                breakers[BreakerName].failure_count + PendingFailures < MaxFailures
          /\ cb_calls' = [cb_calls EXCEPT ![t].pc = "recording", ![t].result = r]
    /\ UNCHANGED <<clock, cb_args, breakers, rl_args, limiters, rl_calls, executions,
                   rt_args, rt_call, macroVars>>

\* lock; record_success or record_failure; return the result
Record(t) ==
    /\ cb_calls[t].pc = "recording"
    /\ breakers' = [breakers EXCEPT ![BreakerName] =
                       IF cb_calls[t].result = "Ok"
                       THEN record_success(breakers[BreakerName])
                       ELSE record_failure(breakers[BreakerName], clock)]
    /\ cb_calls' = [cb_calls EXCEPT ![t] = [IdleCall EXCEPT !.result = cb_calls[t].result]]
    /\ UNCHANGED <<clock, cb_args, rl_args, limiters, rl_calls, executions, rt_args, rt_call, macroVars>>

reset_circuit ==
    /\ BreakerName \in DOMAIN breakers
    /\ breakers' = [breakers EXCEPT ![BreakerName].state = "Closed",
                                    ![BreakerName].failure_count = 0,
                                    ![BreakerName].success_count = 0]
    /\ UNCHANGED <<clock, cb_args, cb_calls, rl_args, limiters, rl_calls, executions,
                   rt_args, rt_call, macroVars>>

\* a second passes
BreakerTick ==
    /\ clock < MaxClock
    /\ clock' = clock + 1
    /\ UNCHANGED <<cb_args, breakers, cb_calls, rl_args, limiters, rl_calls, executions,
                   rt_args, rt_call, macroVars>>

\* no macro expansion is going on while the program runs
MacroNotRunning ==
    /\ session = <<>>
    /\ attr = <<>> /\ item = FreeFn /\ callArgs = <<>>
    /\ pc = "start"
    /\ decorator_list = None
    /\ decorated_body = None
    /\ output = NoOutput
    /\ ctl = [m |-> "idle"]
    /\ stack = <<>>
    /\ env = <<>>
    /\ trace = <<>>
    /\ futures = <<>>
    /\ result = None

BreakerInit ==
    /\ clock = 0
    /\ cb_args \in [failure_threshold : 1..MaxThreshold,
                    success_threshold : 1..MaxThreshold,
                    timeout_secs : 0..MaxTimeout]
    /\ breakers = EmptyMap
    /\ cb_calls = [t \in Callers |-> IdleCall]
    /\ rl_args = <<>> /\ limiters = <<>> /\ rl_calls = <<>> /\ executions = <<>>
    /\ rt_args = <<>> /\ rt_call = <<>>
    /\ MacroNotRunning

BreakerNext ==
    \/ \E t \in Callers : Admit(t)
    \/ \E t \in Callers : Execute(t)
    \/ \E t \in Callers : Record(t)
    \/ reset_circuit
    \/ BreakerTick

BreakerSpec == BreakerInit /\ [][BreakerNext]_vars

BreakerExists == BreakerName \in DOMAIN breakers
Breaker == breakers[BreakerName]
FailureRecorded(t) ==
    cb_calls[t].pc = "recording" /\ cb_calls[t].result = "Err" /\ cb_calls'[t].pc = "idle"
SuccessRecorded(t) ==
    cb_calls[t].pc = "recording" /\ cb_calls[t].result = "Ok" /\ cb_calls'[t].pc = "idle"
AdmissionChecked(t) == cb_calls[t].pc = "idle" /\ cb_calls'[t] # cb_calls[t]
StillOpen ==
    /\ BreakerExists
    /\ Breaker.state = "Open"
    /\ IsSome(Breaker.last_failure_time)
    /\ clock - Unwrap(Breaker.last_failure_time) < cb_args.timeout_secs

\* what a recorded result does to a Closed breaker of threshold T
ClosedCounts(t) ==
    (BreakerExists /\ Breaker.state = "Closed") =>
        /\ FailureRecorded(t) =>
              /\ Breaker'.failure_count = Breaker.failure_count + 1
              /\ Breaker'.last_failure_time = Some(clock)
              /\ Breaker'.state = IF Breaker.failure_count + 1 >= cb_args.failure_threshold
                                  THEN "Open" ELSE "Closed"
        /\ SuccessRecorded(t) =>
              /\ Breaker'.failure_count = 0
              /\ Breaker'.state = "Closed"

\* a call checked for admission while the breaker is Open and the timeout has not
\* passed returns the error; the wrapped function is not run
OpenRejects(t) ==
    (StillOpen /\ AdmissionChecked(t)) =>
        /\ cb_calls'[t].pc = "idle"
        /\ cb_calls'[t].result = "CircuitOpen"
        /\ breakers' = breakers

\* C18: a breaker created with failure_threshold T >= 1 counts, while Closed, the
\* failures recorded since the last recorded success (fewer than T of them), the
\* T-th in a row moves it to Open, a success resets the count; and every call that
\* is checked for admission while the breaker is Open and less than timeout_secs
\* have passed since the last recorded failure returns the 'circuit is open' error
\* without running the wrapped function, whatever the interleaving of the callers.
C18_OpensAtThresholdAndRejects ==
    /\ [](BreakerExists =>
            /\ Breaker.failure_threshold = cb_args.failure_threshold
            /\ Breaker.state = "Closed" => Breaker.failure_count < cb_args.failure_threshold
            /\ Breaker.state = "Open" => IsSome(Breaker.last_failure_time))
    /\ [][\A t \in Callers : ClosedCounts(t) /\ OpenRejects(t)]_vars

\* a breaker of threshold 2 is Open after two failures and a caller was turned away
C18_Witness ==
    /\ BreakerExists
    /\ cb_args.failure_threshold = 2
    /\ Breaker.state = "Open"
    /\ Breaker.failure_count = 2
    /\ StillOpen
    /\ \E t \in Callers : cb_calls[t].pc = "idle" /\ cb_calls[t].result = "CircuitOpen"

StateOf(map) == IF BreakerName \in DOMAIN map THEN map[BreakerName].state ELSE "Closed"

\* the moves of the breaker's state, each with what causes it and what it resets
AllowedTransition ==
    \/ StateOf(breakers') = StateOf(breakers)
    \/ /\ StateOf(breakers) = "Closed" /\ StateOf(breakers') = "Open"
       /\ \E t \in Callers : FailureRecorded(t)
       /\ Breaker.failure_count + 1 >= cb_args.failure_threshold
    \/ /\ StateOf(breakers) = "Open" /\ StateOf(breakers') = "HalfOpen"
       /\ clock - Unwrap(Breaker.last_failure_time) >= cb_args.timeout_secs
       /\ \E t \in Callers : AdmissionChecked(t) /\ cb_calls'[t].pc = "executing"
       /\ Breaker'.success_count = 0
    \/ /\ StateOf(breakers) = "HalfOpen" /\ StateOf(breakers') = "Closed"
       /\ \/ /\ \E t \in Callers : SuccessRecorded(t)
             /\ Breaker.success_count + 1 >= cb_args.success_threshold
          \/ cb_calls' = cb_calls
       /\ Breaker'.failure_count = 0 /\ Breaker'.success_count = 0
    \/ /\ StateOf(breakers) = "HalfOpen" /\ StateOf(breakers') = "Open"
       /\ \E t \in Callers : FailureRecorded(t)
       /\ Breaker'.success_count = 0
    \/ /\ StateOf(breakers) = "Open" /\ StateOf(breakers') = "Closed"
       /\ cb_calls' = cb_calls
       /\ Breaker'.failure_count = 0 /\ Breaker'.success_count = 0

\* what the breaker must do once the timeout has passed and while HalfOpen
Recovery(t) ==
    /\ (BreakerExists /\ Breaker.state = "Open" /\ ~StillOpen /\ AdmissionChecked(t)) =>
          /\ Breaker'.state = "HalfOpen"
          /\ cb_calls'[t].pc = "executing"
    /\ (BreakerExists /\ Breaker.state = "HalfOpen" /\ SuccessRecorded(t)) =>
          IF Breaker.success_count + 1 >= cb_args.success_threshold
          THEN /\ Breaker'.state = "Closed"
               /\ Breaker'.failure_count = 0 /\ Breaker'.success_count = 0
          ELSE /\ Breaker'.state = "HalfOpen"
               /\ Breaker'.success_count = Breaker.success_count + 1
    /\ (BreakerExists /\ Breaker.state = "HalfOpen" /\ FailureRecorded(t)) =>
          /\ Breaker'.state = "Open"
          /\ Breaker'.success_count = 0

\* C19: once timeout_secs have passed since the last failure the next call moves
\* the breaker Open -> HalfOpen and is executed; in HalfOpen, success_threshold
\* recorded successes move it to Closed with both counts 0 and a recorded failure
\* moves it back to Open with success_count 0; besides Closed -> Open at the
\* failure threshold and reset_circuit forcing Closed the state never changes.
C19_RecoveryTransitions ==
    /\ [](BreakerExists /\ Breaker.state = "HalfOpen" =>
             Breaker.success_count < cb_args.success_threshold)
    /\ [][AllowedTransition /\ \A t \in Callers : Recovery(t)]_vars

\* a breaker that needs two successes is HalfOpen with one recorded
C19_Witness ==
    /\ BreakerExists
    /\ cb_args.success_threshold = 2
    /\ cb_args.timeout_secs = 2
    /\ Breaker.state = "HalfOpen"
    /\ Breaker.success_count = 1
    /\ clock - Unwrap(Breaker.last_failure_time) >= 2

(***************************************************************************)
(* examples/decorators/rate_limit.rs.  Callers run rate_limit_keyed for    *)
(* one key at the same time.  `now` is read before the mutex is taken; the *)
(* block that holds the mutex is one step.  Time is counted in             *)
(* milliseconds.  A caller that need not sleep runs the wrapped function   *)
(* at once and a sleeper runs it the moment its sleep ends: the clock      *)
(* does not move while either is due.                                      *)
(***************************************************************************)
MaxDelay == 2
MaxCalls == 3

RateKey == "default"

\* Instant::duration_since: zero when `earlier` is later than `self`
duration_since(self, earlier) == IF self >= earlier THEN self - earlier ELSE 0

IdleRateCall == [pc |-> "idle", now |-> 0, wake |-> 0, fresh |-> FALSE]

CallsBegun ==
    Len(executions) + Cardinality({t \in Callers : rl_calls[t].pc # "idle"})

\* `let delay = ..; let now = Instant::now();`
RateStart(t) ==
    /\ rl_calls[t].pc = "idle"
    /\ CallsBegun < MaxCalls
    /\ rl_calls' = [rl_calls EXCEPT ![t] = [IdleRateCall EXCEPT !.pc = "started",
                                                              !.now = clock]]
    /\ UNCHANGED <<clock, cb_args, breakers, cb_calls, rl_args, limiters, executions,
                   rt_args, rt_call, macroVars>>

\* the block under the mutex: the entry for the key, the time since its
\* last_request, the new last_request, the sleep the caller has to make
RateCheck(t) ==
    /\ rl_calls[t].pc = "started"
    /\ LET delay == rl_args.delay_ms
           now == rl_calls[t].now
           map == EntryOrInsert(limiters, RateKey,
                                [last_request |-> now - delay, request_count |-> 0])
           state == map[RateKey]
           elapsed == duration_since(now, state.last_request)
           sleep_time == delay - elapsed
       IN IF elapsed < delay
          THEN /\ limiters' = [map EXCEPT ![RateKey] =
                                  [last_request |-> now + sleep_time,
                                   request_count |-> state.request_count + 1]]
               /\ rl_calls' = [rl_calls EXCEPT ![t].pc = "sleeping",
                                               ![t].wake = clock + sleep_time,
                                               ![t].fresh = RateKey \notin DOMAIN limiters]
          ELSE /\ limiters' = [map EXCEPT ![RateKey] =
                                  [last_request |-> now,
                                   request_count |-> state.request_count + 1]]
               /\ rl_calls' = [rl_calls EXCEPT ![t].pc = "ready",
                                               ![t].fresh = RateKey \notin DOMAIN limiters]
    /\ UNCHANGED <<clock, cb_args, breakers, cb_calls, rl_args, executions, rt_args, rt_call, macroVars>>

Due(t) ==
    \/ rl_calls[t].pc = "ready"
    \/ rl_calls[t].pc = "sleeping" /\ clock >= rl_calls[t].wake

\* `f()`, after the sleep if there was one
RateExecute(t) ==
    /\ Due(t)
    /\ executions' = Append(executions,
                            [at |-> clock, slept |-> rl_calls[t].pc = "sleeping",
                             fresh |-> rl_calls[t].fresh])
    /\ rl_calls' = [rl_calls EXCEPT ![t] = IdleRateCall]
    /\ UNCHANGED <<clock, cb_args, breakers, cb_calls, rl_args, limiters, rt_args, rt_call, macroVars>>

\* a millisecond passes
RateTick ==
    /\ clock < MaxClock
    /\ \A t \in Callers : ~Due(t)
    /\ clock' = clock + 1
    /\ UNCHANGED <<cb_args, breakers, cb_calls, rl_args, limiters, rl_calls, executions,
                   rt_args, rt_call, macroVars>>

RateInit ==
    /\ clock = 0
    /\ rl_args \in [delay_ms : 1..MaxDelay]
    /\ limiters = EmptyMap
    /\ rl_calls = [t \in Callers |-> IdleRateCall]
    /\ executions = <<>>
    /\ cb_args = <<>> /\ breakers = <<>> /\ cb_calls = <<>>
    /\ rt_args = <<>> /\ rt_call = <<>>
    /\ MacroNotRunning

RateNext ==
    \/ \E t \in Callers : RateStart(t)
    \/ \E t \in Callers : RateCheck(t)
    \/ \E t \in Callers : RateExecute(t)
    \/ RateTick

RateSpec == RateInit /\ [][RateNext]_vars

\* C20: for one key and one delay_ms any two executions of wrapped functions start
\* at least delay_ms apart, whatever the sequence and interleaving of the callers
\* (three or more arriving within one delay window included), and the first call
\* under a fresh key executes without sleeping.
C20_ExecutionsSpaced ==
    /\ \A i, j \in 1..Len(executions) :
          i < j => executions[j].at - executions[i].at >= rl_args.delay_ms
    /\ \A i \in 1..Len(executions) : executions[i].fresh => ~executions[i].slept

(***************************************************************************)
(* examples/decorators/with_retry.rs: with_retry_result.  The wrapped      *)
(* function answers Ok or one of several errors, as it likes, each time it *)
(* is called.  Durations are counted in milliseconds.                      *)
(***************************************************************************)
MaxAttempts == 3

ErrorValues == {"timeout", "refused"}
Ok(v) == [r |-> "Ok", v |-> v]
Err(e) == [r |-> "Err", v |-> e]

\* RetryConfig::new(attempts): the other fields from Default
RetryConfigNew(max_attempts) ==
    [max_attempts |-> max_attempts, initial_delay |-> 100, max_delay |-> 30000,
     backoff_multiplier |-> 2, jitter |-> TRUE]

\* add_jitter: the duration times a factor of 0.750 .. 1.249, in thousandths
JitterFactors == {750, 1000, 1249}
add_jitter(duration, factor) == (duration * factor) \div 1000

\* `(delay * backoff_multiplier).min(max_delay)`
Backoff(config, delay) ==
    IF delay * config.backoff_multiplier < config.max_delay
    THEN delay * config.backoff_multiplier ELSE config.max_delay

\* `let start = ..; let mut delay = config.initial_delay; let mut last_error = None;`
\* and the range 1..=max_attempts at its first element
RetryEntered(config) ==
    [pc |-> "loop", config |-> config, attempt |-> 1, delay |-> config.initial_delay,
     last_error |-> None, answers |-> <<>>, sleeps |-> <<>>, returned |-> None]

\* one turn of the loop up to the end of its match arm for Ok, or to the assignment
\* of last_error: `match f() { Ok(result) => return Ok(result), Err(e) => .. }`
RetryCall ==
    /\ rt_call.pc = "loop"
    /\ rt_call.attempt <= rt_call.config.max_attempts
    /\ \E answer \in {Ok("value")} \cup {Err(e) : e \in ErrorValues} :
          rt_call' =
            IF answer.r = "Ok"
            THEN [rt_call EXCEPT !.pc = "returned",
                                 !.answers = Append(@, answer),
                                 !.returned = Some(answer)]
            ELSE [rt_call EXCEPT !.pc = "failed",
                                 !.answers = Append(@, answer),
                                 !.last_error = Some(answer.v)]
    /\ UNCHANGED <<clock, cb_args, breakers, cb_calls, rl_args, limiters, rl_calls,
                   executions, rt_args, macroVars>>

\* the rest of the Err arm: `if attempt < config.max_attempts { sleep; backoff }`,
\* then the next element of the range
RetryBackoff ==
    /\ rt_call.pc = "failed"
    /\ IF rt_call.attempt < rt_call.config.max_attempts
       THEN \E factor \in JitterFactors :
              LET actual_delay == IF rt_call.config.jitter
                                  THEN add_jitter(rt_call.delay, factor)
                                  ELSE rt_call.delay
              IN /\ clock' = clock + actual_delay
                 /\ rt_call' = [rt_call EXCEPT
                        !.pc = "loop",
                        !.attempt = @ + 1,
                        !.sleeps = Append(@, [after |-> rt_call.attempt,
                                              ms |-> actual_delay]),
                        !.delay = Backoff(rt_call.config, rt_call.delay)]
       ELSE /\ rt_call' = [rt_call EXCEPT !.pc = "loop", !.attempt = @ + 1]
            /\ UNCHANGED clock
    /\ UNCHANGED <<cb_args, breakers, cb_calls, rl_args, limiters, rl_calls,
                   executions, rt_args, macroVars>>

\* after the loop: `Err(last_error.unwrap())`; unwrap of None panics
RetryExhausted ==
    /\ rt_call.pc = "loop"
    /\ rt_call.attempt > rt_call.config.max_attempts
    /\ rt_call' = IF IsSome(rt_call.last_error)
                  THEN [rt_call EXCEPT !.pc = "returned",
                                       !.returned = Some(Err(Unwrap(rt_call.last_error)))]
                  ELSE [rt_call EXCEPT !.pc = "panicked"]
    /\ UNCHANGED <<clock, cb_args, breakers, cb_calls, rl_args, limiters, rl_calls,
                   executions, rt_args, macroVars>>

\* with_retry_result(attempts, f) has been called
RetryInit ==
    /\ clock = 0
    /\ rt_args \in [attempts : 0..MaxAttempts]
    /\ rt_call = RetryEntered(RetryConfigNew(rt_args.attempts))
    /\ cb_args = <<>> /\ breakers = <<>> /\ cb_calls = <<>>
    /\ rl_args = <<>> /\ limiters = <<>> /\ rl_calls = <<>> /\ executions = <<>>
    /\ MacroNotRunning

RetryNext ==
    \/ RetryCall
    \/ RetryBackoff
    \/ RetryExhausted

RetrySpec == RetryInit /\ [][RetryNext]_vars

FirstOk(answers) ==
    /\ Len(answers) >= 1
    /\ answers[Len(answers)].r = "Ok"
    /\ \A i \in 1..(Len(answers) - 1) : answers[i].r = "Err"

\* C21: for every attempts value, 0 included, and every wrapped function,
\* with_retry_result calls the function at most attempts times, returns Ok at the
\* first success without calling it again, otherwise returns Err with the error of
\* the last attempt; it returns a Result in every case and never panics, and it
\* does not sleep after the final failed attempt.
C21_RetryReturnsResult ==
    /\ Len(rt_call.answers) <= rt_args.attempts
    /\ rt_call.pc # "panicked"
    /\ \A i \in 1..Len(rt_call.sleeps) : rt_call.sleeps[i].after < rt_args.attempts
    /\ rt_call.pc = "returned" =>
          \/ /\ Unwrap(rt_call.returned).r = "Ok"
             /\ FirstOk(rt_call.answers)
          \/ /\ Unwrap(rt_call.returned).r = "Err"
             /\ Len(rt_call.answers) = rt_args.attempts
             /\ \A i \in 1..Len(rt_call.answers) : rt_call.answers[i].r = "Err"
             /\ Unwrap(rt_call.returned) = rt_call.answers[Len(rt_call.answers)]
             /\ Len(rt_call.sleeps) = rt_args.attempts - 1

\* the member names of an access chain, innermost access first, and its root
RECURSIVE MembersOf(_)
MembersOf(expr) ==
    IF expr.k = "field" THEN Append(MembersOf(expr.base), expr.member) ELSE <<>>

RECURSIVE RootOf(_)
RootOf(expr) == IF expr.k = "field" THEN RootOf(expr.base) ELSE expr

AcceptedLiteral == LiteralFirst /\ IsSome(decorator_list)

\* C22: for every self-path string the resolver accepts, with segments self, s1,
\* .., sk (k >= 0), the result is the left-associated chain ((self).s1)..sk rooted
\* at the receiver: exactly k accesses, in segment order; "self" alone gives the
\* bare receiver.
C22_LeftAssociatedChain ==
    AcceptedLiteral =>
        /\ Decorators[1].path.e = "Right"
        /\ RootOf(Decorators[1].path.expr) = [k |-> "self"]
        /\ <<SelfWord>> \o MembersOf(Decorators[1].path.expr) = split_dot(attr[1].chars)
        /\ attr[1].chars = SelfWord => Decorators[1].path.expr = [k |-> "self"]

\* "self.a.other" has been resolved to ((self).a).other
C22_Witness ==
    /\ AcceptedLiteral
    /\ attr[1].chars = <<"s", "e", "l", "f", ".", "a", ".", "o", "t", "h", "e", "r">>
    /\ Decorators[1].path.expr
           = [k |-> "field",
              base |-> [k |-> "field", base |-> [k |-> "self"], member |-> <<"a">>],
              member |-> <<"o", "t", "h", "e", "r">>]

\* the identifier rule, character by character
StartsIdentifier(c) == c \in Letters \cup {"_"}
ContinuesIdentifier(c) == c \in Letters \cup Digits \cup {"_"}
WellFormedSegment(seg) ==
    /\ Len(seg) >= 1
    /\ StartsIdentifier(seg[1])
    /\ \A i \in 2..Len(seg) : ContinuesIdentifier(seg[i])

LiteralSegments == split_dot(attr[1].chars)
BrokenSegments ==
    {i \in 2..Len(LiteralSegments) :
        LiteralSegments[i] # <<>> /\ ~WellFormedSegment(LiteralSegments[i])}
FailingSegments ==
    {i \in 2..Len(LiteralSegments) : ~WellFormedSegment(LiteralSegments[i])}
FirstFailingSegment == CHOOSE i \in FailingSegments : \A j \in FailingSegments : i <= j

\* every SelfExpression an entry holds: rooted at the receiver, every member a
\* well-formed identifier
HeldSelfExpressionsValid ==
    IsSome(decorator_list) =>
        \A i \in 1..Len(Decorators) :
            Decorators[i].path.e = "Right" =>
                /\ RootOf(Decorators[i].path.expr) = [k |-> "self"]
                /\ \A m \in 1..Len(MembersOf(Decorators[i].path.expr)) :
                       WellFormedSegment(MembersOf(Decorators[i].path.expr)[m])

SucceedsOnlyIfWellFormed ==
    AcceptedLiteral =>
        /\ LiteralSegments[1] = SelfWord
        /\ FailingSegments = {}

\* C23 as stated: the resolver succeeds only on well-formed paths, and a literal
\* with a non-empty later segment that breaks the identifier rule is rejected with
\* the invalid-identifier-segment diagnosis naming such a segment.
C23_BrokenSegmentAlwaysNamed ==
    /\ SucceedsOnlyIfWellFormed
    /\ HeldSelfExpressionsValid
    /\ (LiteralFirst /\ BrokenSegments # {} /\ pc # "start") =>
          /\ pc = "rejected"
          /\ \E i \in BrokenSegments :
                output = Rejected(ErrorNew(AttrSpan(1), SELF_PATH_INVALID_SEGMENT,
                                           LiteralSegments[i]))

\* C23 amended: the resolver succeeds only if the first segment is `self` and every
\* later segment is non-empty, starts with an alphabetic character or underscore
\* and continues with alphanumeric characters or underscores, so every
\* SelfExpression held by an entry satisfies the invariant; a literal with a
\* non-empty later segment that breaks the rule is always rejected, with the
\* invalid-identifier-segment diagnosis naming that segment when the first segment
\* is `self` and no earlier segment is empty or broken, and otherwise with the
\* diagnosis of the earlier fault ("path must start with 'self'", the empty-segment
\* one, or the invalid-identifier one naming the earlier broken segment).
C23_FirstFaultDecides ==
    /\ SucceedsOnlyIfWellFormed
    /\ HeldSelfExpressionsValid
    /\ (LiteralFirst /\ BrokenSegments # {} /\ pc # "start") =>
          /\ pc = "rejected"
          /\ decorator_list = None
          /\ output = Rejected(
               IF LiteralSegments[1] # SelfWord
               THEN ErrorNew(AttrSpan(1), SELF_PATH_MUST_START_WITH_SELF, <<>>)
               ELSE IF LiteralSegments[FirstFailingSegment] = <<>>
               THEN ErrorNew(AttrSpan(1), SELF_PATH_EMPTY_SEGMENT, <<>>)
               ELSE ErrorNew(AttrSpan(1), SELF_PATH_INVALID_SEGMENT,
                             LiteralSegments[FirstFailingSegment]))

\* "self._b1.1a" has been rejected, the diagnosis naming "1a"
C23_Witness ==
    /\ LiteralFirst
    /\ attr[1].chars = <<"s", "e", "l", "f", ".", "_", "b", "1", ".", "1", "a">>
    /\ pc = "rejected"
    /\ output = Rejected(ErrorNew(AttrSpan(1), SELF_PATH_INVALID_SEGMENT, <<"1", "a">>))

\* the configuration keys written in front of the k-th entry's reference: the key
\* positions after the reference of the entry before it
ReferencePosition(k) == IF k = 0 THEN 0 ELSE Decorators[k].path_span.pos
KeysWritten(k) ==
    {attr[p].name : p \in {q \in (ReferencePosition(k - 1) + 1)..(ReferencePosition(k) - 1) :
                              KeyPosition(q)}}

FieldsSet(config) ==
    {key \in ValidKeys :
        IsSome(CASE key = "pre" -> config.pre_code
                 [] key = "post" -> config.post_code
                 [] key = "transform_params" -> config.transform_params
                 [] key = "transform_result" -> config.transform_result)}

\* the node the k-th decorator's closure holds
ClosureBody(k) == CallNodes(output.body)[k].body

\* C24: after parsing, an entry's config is present if and only if at least one of
\* pre, post, transform_params, transform_result was set; an entry with none set
\* has no config, never an empty record; and for such an entry composition adds no
\* block around the current body other than the decorator call itself.
C24_ConfigPresentIffSet ==
    IsSome(decorator_list) =>
        \A k \in 1..Len(Decorators) :
            /\ IsSome(Decorators[k].config) <=> KeysWritten(k) # {}
            /\ IsSome(Decorators[k].config) =>
                  /\ Config(Decorators[k]) # DecoratorConfigDefault
                  /\ FieldsSet(Config(Decorators[k])) = KeysWritten(k)
            /\ (Emitted /\ ~IsSome(Decorators[k].config)) =>
                  /\ ConfigKinds(ClosureBody(k)) = <<>>
                  /\ ClosureBody(k) = IF k < Len(Decorators)
                                      THEN CallNodes(output.body)[k + 1]
                                      ELSE [k |-> "orig", block |-> item.block]

\* `pre = pre_hook, A, B` has been expanded: A holds a config, B none, and B's
\* closure holds the original body
C24_Witness ==
    /\ pc = "expanded"
    /\ attr = PairTokens("pre", <<>>) \o <<PathRef(1), Comma, PathRef(2)>>
    /\ IsSome(Decorators[1].config)
    /\ Decorators[2].config = None
    /\ ClosureBody(2) = [k |-> "orig", block |-> item.block]

AsyncItem == item.is_fn /\ item.sig.asyncness
ClosureFutures == {i \in 1..Len(futures) : futures[i].who = "closure"}
\* something of a closure's body has run: a hook, a transform, the original block
WrappedCodeRan ==
    \/ \E i \in 1..Len(trace) : trace[i].ev \notin {"enter", "leave"}
    \/ \E i \in 1..Len(stack) : stack[i].f \in {"closure", "post", "transform_result"}
DecoratorPolled(callee) ==
    \E i \in 1..Len(futures) :
        futures[i] = Future("decorator", callee, "polled")

\* C25: for an async function every closure handed to a decorator is
\* `|| async { .. }`: calling it returns a suspended computation and runs nothing of
\* the wrapped body; the body, with the hooks and transforms around it, runs only
\* when that computation is awaited; and the engine's only `.await` is on the value
\* the outermost decorator returns, so a closure's computation is awaited inside
\* the decorator's and never before it.
C25_ClosureSuspendedUntilAwaited ==
    (AsyncItem /\ Emitted) =>
        /\ output.await
        /\ output.body.k \in {"validated_call", "direct_call"}
        /\ \A i \in 1..Len(CallNodes(output.body)) : CallNodes(output.body)[i].is_async
        /\ WrappedCodeRan => \E i \in ClosureFutures : futures[i].state = "polled"
        /\ (\A i \in ClosureFutures : futures[i].state = "suspended") =>
              \A j \in 1..Len(trace) : trace[j].ev = "enter"
        /\ \A i \in ClosureFutures :
              futures[i].state = "polled" => DecoratorPolled(futures[i].callee)

\* an async function under `pre = pre_hook, post = post_hook, A`: A has called its
\* closure and returned, nothing of the hooks or the body has run
C25_Witness ==
    /\ AsyncItem
    /\ pc = "running"
    /\ attr = PairTokens("pre", <<>>) \o PairTokens("post", <<>>) \o <<PathRef(1)>>
    /\ futures = <<Future("closure", Left("A"), "suspended"),
                   Future("decorator", Left("A"), "suspended")>>
    /\ Kinds(trace) = <<"enter">>

\* the configuration blocks between a decorator call and the next call or the
\* original body, outermost first
RECURSIVE WrapperNodes(_)
WrapperNodes(node) ==
    IF node.k \in {"orig", "validated_call", "direct_call"} THEN <<>>
    ELSE <<node>> \o WrapperNodes(node.body)

\* the parameters written `name: Type`, in declaration order
PlainParameters ==
    SelectSeq(item.sig.inputs, LAMBDA a : a.arg = "Typed" /\ a.pat = "Ident")
PlainNames == [i \in 1..Len(PlainParameters) |-> PlainParameters[i].ident]

RebindingBlocks(k) == SelectSeq(WrapperNodes(ClosureBody(k)), LAMBDA n : n.k = "let_params")
HasParamTransform(k) ==
    IsSome(Decorators[k].config) /\ IsSome(Config(Decorators[k]).transform_params)
EventIndex(ev) == CHOOSE i \in 1..Len(trace) : trace[i].ev = ev

\* C26: the parameter transform of an entry is called with exactly the function's
\* parameters bound by a plain identifier, in declaration order (the receiver and
\* pattern-bound parameters left out), and the same names are rebound to what it
\* returns, before the body runs; when the function has no such parameter the
\* transform is never called and the body is left as it is.
C26_TransformTakesPlainParameters ==
    /\ (IsSome(decorator_list) /\ Emitted) =>
          \A k \in 1..Len(Decorators) :
              IF HasParamTransform(k) /\ PlainNames # <<>>
              THEN /\ Len(RebindingBlocks(k)) = 1
                   /\ RebindingBlocks(k)[1].names = PlainNames
                   /\ RebindingBlocks(k)[1].f = Unwrap(Config(Decorators[k]).transform_params)
                   /\ RebindingBlocks(k)[1].body
                          = IF k < Len(Decorators) THEN CallNodes(output.body)[k + 1]
                            ELSE [k |-> "orig", block |-> item.block]
              ELSE RebindingBlocks(k) = <<>>
    /\ (pc = "done" /\ Len(Decorators) = 1) =>
          IF HasParamTransform(1) /\ PlainNames # <<>>
          THEN /\ Count("transform_params") = 1
               /\ EventIndex("transform_params") < EventIndex("body")
               /\ trace[EventIndex("body")].val
                      = IntV(Sum(ApplyParamTransform(
                                   Unwrap(Config(Decorators[1]).transform_params), callArgs)))
          ELSE /\ Count("transform_params") = 0
               /\ trace[EventIndex("body")].val = IntV(Sum(callArgs))

\* a method (&self, (a, b): (i32, i32), x: i32) under `transform_params =
\* double_params, A` has run with x = 2: double_params was given x alone
C26_Witness ==
    /\ pc = "done"
    /\ item.sig.inputs = PM
    /\ callArgs = <<2>>
    /\ Len(Decorators) = 1
    /\ HasParamTransform(1)
    /\ Config(Decorators[1]).transform_params = Some("double_params")
    /\ RebindingBlocks(1)[1].names = <<"x">>
    /\ trace[EventIndex("body")].val = IntV(4)

\* a function of one tuple-pattern parameter under a parameter transform: no
\* rebinding block, the transform never called
C26_WitnessNoPlainParameter ==
    /\ pc = "done"
    /\ item.sig.inputs = P0
    /\ HasParamTransform(1)
    /\ Count("transform_params") = 0

\* the value written for `key` in front of the k-th entry's reference (the last
\* one, should the key be written twice)
KeyPositionsOf(k, key) ==
    {q \in (ReferencePosition(k - 1) + 1)..(ReferencePosition(k) - 1) :
        KeyPosition(q) /\ attr[q].name = key}
LastPosition(ps) == CHOOSE q \in ps : \A r \in ps : r <= q
WrittenValue(k, key) == attr[LastPosition(KeyPositionsOf(k, key)) + 2]

Positions(shape) == {i \in 1..Len(trace) : Shape(trace)[i] = shape}
Position(shape) == CHOOSE i \in Positions(shape) : TRUE
PreOf(k) == [ev |-> "pre", who |-> [e |-> <<WrittenValue(k, "pre")>>]]
PostOf(k) == [ev |-> "post", who |-> [e |-> <<WrittenValue(k, "post")>>]]
\* what runs inside the k-th decorator: the next decorator, or the original body
EnterInside(k) == IF k < Len(Decorators) THEN Enter(Decorators[k + 1].path) ELSE Body
LeaveInside(k) == IF k < Len(Decorators) THEN Leave(Decorators[k + 1].path) ELSE Body

PreRunsInside(k) ==
    /\ Cardinality(Positions(PreOf(k))) = 1
    /\ Position(Enter(Decorators[k].path)) < Position(PreOf(k))
    /\ Position(PreOf(k)) < Position(EnterInside(k))
PostRunsInside(k) ==
    /\ Cardinality(Positions(PostOf(k))) <= 1
    /\ k < Len(Decorators) => Cardinality(Positions(PostOf(k))) = 1
    /\ \A i \in Positions(PostOf(k)) :
          Position(LeaveInside(k)) < i /\ i < Position(Leave(Decorators[k].path))

HookEvents == SelectSeq(trace, LAMBDA e : e.ev \in {"pre", "post"})
HooksWritten ==
    Cardinality({k \in 1..Len(Decorators) : KeyPositionsOf(k, "pre") # {}})
    + Cardinality({k \in 1..Len(Decorators) : KeyPositionsOf(k, "post") # {}})

\* C27: configuration pairs attach to the decorator reference that follows them in
\* the same entry and to no other, and their code runs inside that decorator's
\* closure: in a finished run of [D1, .., Dn], the pre hook of a Di carrying one
\* runs once, after Di was entered and before D(i+1) (the body, for Dn) is
\* entered; its post hook runs after D(i+1) has returned and before Di returns,
\* once; a post hook of Dn runs after the body and before Dn returns whenever it
\* runs; entries without config contribute no hook.
C27_HooksInsideTheirDecorator ==
    /\ IsSome(decorator_list) =>
          \A k \in 1..Len(Decorators) :
              /\ IsSome(Decorators[k].config) <=> KeysWritten(k) # {}
              /\ KeyPositionsOf(k, "pre") # {} =>
                    Config(Decorators[k]).pre_code = Some(<<WrittenValue(k, "pre")>>)
              /\ KeyPositionsOf(k, "post") # {} =>
                    Config(Decorators[k]).post_code = Some(<<WrittenValue(k, "post")>>)
    /\ pc = "done" =>
          /\ \A k \in 1..Len(Decorators) :
                /\ KeyPositionsOf(k, "pre") # {} => PreRunsInside(k)
                /\ KeyPositionsOf(k, "post") # {} => PostRunsInside(k)
          /\ Len(HookEvents) <= HooksWritten

\* `pre = pre_1, post = post_1, A, B, pre = pre_3, post = post_3, C` has run
C27_Witness ==
    /\ pc = "done"
    /\ item = FreeFn
    /\ Shape(trace) = <<Enter(Left("A")), [ev |-> "pre", who |-> [e |-> <<PreHooks[1]>>]],
                        Enter(Left("B")),
                        Enter(Left("C")), [ev |-> "pre", who |-> [e |-> <<PreHooks[3]>>]],
                        Body,
                        [ev |-> "post", who |-> [e |-> <<PostHooks[3]>>]], Leave(Left("C")),
                        Leave(Left("B")),
                        [ev |-> "post", who |-> [e |-> <<PostHooks[1]>>]], Leave(Left("A"))>>

\* a decorator reference where an entry begins
EntryReferenceAt(r) ==
    /\ attr[r].t \in {"ident", "lit"}
    /\ r = 1 \/ attr[r - 1].t = "comma"
    /\ ~(r + 1 <= Len(attr) /\ attr[r + 1].t = "eq")

\* a key written twice in front of the same reference
RepeatedKeyAt(p, q) ==
    /\ p < q
    /\ KeyPosition(p) /\ KeyPosition(q)
    /\ attr[p].name = attr[q].name /\ attr[p].name \in ValidKeys
    /\ \A r \in p..q : ~EntryReferenceAt(r)
RepeatedKey == \E p, q \in 1..Len(attr) : RepeatedKeyAt(p, q)
WellFormedList ==
    /\ attr # <<>>
    /\ UnknownKeyPositions = {}
    /\ ~MissingReference
    /\ \A r \in 1..Len(attr) : attr[r].t \in {"ident", "eq", "comma", "expr"}

ValueOfField(config, key) ==
    CASE key = "pre" -> Unwrap(config.pre_code)[1]
      [] key = "post" -> Unwrap(config.post_code)[1]
      [] key = "transform_params" -> Ident(Unwrap(config.transform_params))
      [] key = "transform_result" -> Ident(Unwrap(config.transform_result))

KindOfKey(key) ==
    CASE key = "pre" -> "pre" [] key = "post" -> "post"
      [] key = "transform_params" -> "let_params"
      [] key = "transform_result" -> "transform_result"
\* the configuration values the emitted closure of the k-th decorator holds
ValuesEmitted(k) ==
    {<<WrapperNodes(ClosureBody(k))[i].k,
       IF WrapperNodes(ClosureBody(k))[i].k \in {"pre", "post"}
       THEN WrapperNodes(ClosureBody(k))[i].e[1]
       ELSE Ident(WrapperNodes(ClosureBody(k))[i].f)>> :
        i \in 1..Len(WrapperNodes(ClosureBody(k)))}
ValuesExpected(k) ==
    {<<KindOfKey(key), WrittenValue(k, key)>> :
        key \in {x \in KeysWritten(k) : x = "transform_params" => PlainNames # <<>>}}

LastWritten(k, key) == WrittenValue(k, key).name
ValueExpected ==
    LET k == CHOOSE j \in 1..Len(Decorators) : KeysWritten(j) # {}
        args == IF "transform_params" \in KeysWritten(k)
                THEN ApplyParamTransform(LastWritten(k, "transform_params"), callArgs)
                ELSE callArgs
    IN IF "transform_result" \in KeysWritten(k)
       THEN ApplyResultTransform(LastWritten(k, "transform_result"), Sum(args))
       ELSE Sum(args)

\* C28: when a configuration key is given more than once within one entry, parsing
\* succeeds and the last value given is the one used; the earlier values leave no
\* trace in the emitted code, and the other three fields are what they would be
\* without the repetition.
C28_LastWriteWins ==
    (RepeatedKey /\ WellFormedList /\ item = FreeFn /\ pc # "start") =>
        /\ pc # "rejected"
        /\ IsSome(decorator_list)
        /\ \A k \in 1..Len(Decorators) :
              /\ IsSome(Decorators[k].config) <=> KeysWritten(k) # {}
              /\ IsSome(Decorators[k].config) =>
                    /\ FieldsSet(Config(Decorators[k])) = KeysWritten(k)
                    /\ \A key \in KeysWritten(k) :
                          ValueOfField(Config(Decorators[k]), key) = WrittenValue(k, key)
              /\ Emitted =>
                    /\ ValuesEmitted(k) = ValuesExpected(k)
                    /\ Len(WrapperNodes(ClosureBody(k))) = Cardinality(ValuesExpected(k))
        /\ pc = "done" => result = Some(IntV(ValueExpected))

\* f(1, 2) under `transform_params = double_params, pre = pre_1, transform_params =
\* transform_params, A` has returned (1 + 1) + (2 + 1) = 5
C28_Witness ==
    /\ pc = "done"
    /\ attr = Pair("transform_params", 2) \o Pair("pre", 1) \o Pair("transform_params", 1)
              \o <<PathRef(1)>>
    /\ callArgs = <<1, 2>>
    /\ Config(Decorators[1]).transform_params = Some("transform_params")
    /\ result = Some(IntV(5))

\* C29: an entry made only of configuration pairs, no decorator reference after
\* them (the whole annotation `transform_params = f`, or a list ending `.., pre =
\* e`), is rejected as a parse error of the annotation, at the end of the input
\* unless a token before it was diagnosed; configuration alone never wraps a
\* function and no function is emitted.
C29_ConfigAloneRejected ==
    (MissingReference /\ pc # "start") =>
        /\ pc = "rejected"
        /\ decorator_list = None
        /\ decorated_body = None
        /\ output.kind = "error"
        /\ output.diags[1].span.at = "attr"
        /\ UnknownKeyPositions = {} =>
              output = Rejected(ErrorNew(AttrSpan(Len(attr) + 1), SYN_PARSE_ERROR, <<>>))
        /\ trace = <<>> /\ result = None

\* the annotation `transform_params = transform_params` of
\* tests/fail/invalid_transform.rs has been rejected at its end
C29_Witness ==
    /\ attr = <<Ident("transform_params"), EqTok, Ident("transform_params")>>
    /\ item = FreeFn
    /\ pc = "rejected"
    /\ output = Rejected(ErrorNew(AttrSpan(4), SYN_PARSE_ERROR, <<>>))

\* the fatal conditions, each read off the macro's input
AnnotationFault ==
    \/ UnknownKeyPositions # {}
    \/ MalformedSelfPath
    \/ MissingReference
    \/ \E r \in 1..Len(attr) : attr[r].t = "brace"
    \/ \E r \in 1..Len(attr) :
          attr[r].t = "paren" /\ attr[r].toks # <<>> /\ ~CallParses(attr[r].toks)
EmptyList == attr = <<>>
ItemFault == ~item.is_fn
ConstFunction == item.sig.constness

PrimaryMessages == {i \in 1..Len(output.diags) : output.diags[i].msg # "help"}
Diagnosed(kind) ==
    /\ pc = "rejected"
    /\ output.kind = "error"
    /\ Cardinality(PrimaryMessages) = 1
    /\ decorated_body = None
    /\ CASE kind = "annotation" -> output.diags[1].span.at = "attr"
         [] kind = "empty" -> output.diags = ErrorNew(CallSiteSpan, NO_DECORATORS, <<>>)
         [] kind = "item" -> /\ output.diags[1].span.at = "item"
                             /\ output.diags[1].msg = SYN_PARSE_ERROR
         [] kind = "const" -> /\ output.diags[1].span = ConstTokenSpan
                              /\ output.diags[1].msg = CONST_FN_NOT_SUPPORTED

\* C30: when several fatal conditions hold for one annotated function exactly one
\* diagnosis is reported, chosen in a fixed order: an annotation parse error
\* (unknown key, bad self-path, missing reference) first, then the empty-list
\* error, then a function-item parse error, then the const-function error; the
\* body is composed only if none of them holds.
C30_FirstFatalErrorReported ==
    /\ PastValidation =>
          IF AnnotationFault THEN Diagnosed("annotation")
          ELSE IF EmptyList THEN Diagnosed("empty")
          ELSE IF ItemFault THEN Diagnosed("item")
          ELSE IF ConstFunction THEN Diagnosed("const")
          ELSE pc # "rejected" /\ output.kind # "error"
    /\ decorated_body # None =>
          ~(AnnotationFault \/ EmptyList \/ ItemFault \/ ConstFunction)
    /\ pc = "rejected" => AnnotationFault \/ EmptyList \/ ItemFault \/ ConstFunction

\* a `const fn` that is no function item, under [A, B]: the item's parse error is
\* the one reported
C30_Witness ==
    /\ item = ConstFnUnparsable
    /\ attr = <<PathRef(1), Comma, PathRef(2)>>
    /\ Diagnosed("item")

\* an unknown key on a const function: the annotation's error is the one reported
C30_WitnessAnnotationFirst ==
    /\ item = ConstFn
    /\ UnknownKeyPositions # {}
    /\ Diagnosed("annotation")
    /\ output.diags[1].msg = UNKNOWN_CONFIG_OPTION

=============================================================================
